---- MODULE Spec2Model ----
(***************************************************************************)
(* Model of the linkedin-automation bot: the stealth engines (scroller,    *)
(* scheduler, constructors), the connection manager with its SQLite state  *)
(* and the main workflow.                                                  *)
(*                                                                         *)
(* Time is counted in seconds since a Sunday 00:00 in the scheduler's      *)
(* timezone (Go: time.Sunday = 0).  A probability is a percentage and a    *)
(* draw of rand.Float64() is a percentage in 0..99, so that                *)
(* "rand.Float64() < p" is "draw < p".  rand.Intn(n) panics for n <= 0.    *)
(***************************************************************************)
EXTENDS Integers, Sequences, FiniteSets, TLC

VARIABLES
    \* ---- Scroller (src/unnamed/part_000, second file) ----
    sc_prof,        \* the Scroller's fields
    sc_pc,          \* "idle" | "loop" | "done" | "panic"
    sc_dir,         \* "down" | "up" | "none"
    sc_distance,    \* the distance argument of ScrollDown / ScrollUp
    sc_chunks,      \* chunks
    sc_chunkSize,   \* chunkSize
    sc_i,           \* loop index
    sc_sum,         \* sum of the forward deltas issued so far (signed)
    sc_last,        \* remote actions and sleeps of the latest iteration
    sc_err,         \* "nil" | "scroll" : the error returned
    \* ---- Scheduler (src/internal/config/config.go, stealth package) ----
    now,            \* the wall clock, seconds since Sunday 00:00
    s_cfg,          \* the Scheduler's fields
    chk,            \* the latest IsBusinessHours() call: time and result
    w_pc,           \* WaitForBusinessHours: "idle" | "loop" | "returned"
    w_now,          \* `now` read by the latest loop iteration (-1: none)
    w_next,         \* nextBusinessTime of the latest iteration (-1: none)
    \* ---- Engine constructors (stealth package, config.validateConfig) ----
    eng,            \* the engine instance the latest constructor returned
    eng_err,        \* "nil" | "config" : the error it returned
    eng_seed,       \* the seed of the instance's random source (0: none)
    eng_prev,       \* the construction before: its seed, and whether it had
                    \* the same arguments as the latest one
    \* ---- ConnectionManager and storage.DB ----
    c_cfg,          \* config.ConnectionsConfig
    db_requests,    \* table connection_requests: set of [url, sentAt]
    db_results,     \* table search_results: sequence of [url, contacted]
    sent,           \* the connection requests delivered to the site so far
    c_ret,          \* the outcome of the latest SendConnectionRequest call
    \* ---- main workflow (src/main.go) ----
    m_pc,           \* position of main ("panic": the process has died)
    m_queue,        \* uncontactedProfiles still to be visited by the loop
    m_ops,          \* the site operations main has issued: [kind, at]
    \* ---- Typer (src/internal/stealth/typing.go) ----
    ty_prof,        \* the Typer's fields
    ty_text,        \* the text argument of TypeText, one string per rune
    ty_failAt,      \* which key event the page rejects (0: none)
    ty_pc,          \* "idle" | "typetext" | "loop" | "done" | "panic"
    ty_msPerChar,   \* msPerChar
    ty_i,           \* characters of the text handled so far
    ty_events,      \* the key events issued so far: [kind, value, ok]
    ty_last,        \* key events and sleeps of the latest iteration
    ty_err,         \* "nil" | "focus" : the error returned
    \* ---- TimingController (src/internal/stealth/timing.go) ----
    tm_cfg,         \* the TimingController's fields
    tm_call,        \* the latest duration call: [fn, d, slept, at, end]
    \* ---- MouseMover (src/unnamed/part_000, first file) ----
    mv_prof,        \* the MouseMover's fields
    mv_start,       \* the start argument of moveToPoint
    mv_end,         \* the end argument of moveToPoint
    mv_failAt,      \* which pointer move the page rejects (0: none)
    mv_pc,          \* "idle" | "loop" | "done"
    mv_cps,         \* controlPoints
    mv_numPoints,   \* numPoints: the length of the main curve
    mv_tail,        \* the overshoot points appended to the path
    mv_i,           \* loop index into the path
    mv_n,           \* pointer moves issued so far
    mv_last,        \* pointer moves and sleeps of the latest iteration
    mv_err,         \* "nil" | "move" : the error returned
    \* ---- Authenticator.Login (src/unnamed/part_001) ----
    lg_pc,          \* the caller: "idle" | "steps" | "wait" | "verify" | "save" | "done"
    lg_step,        \* index into LoginSteps
    lg_ppc,         \* the poller: "none" | "check" | "checking" | "send" | "exited"
    lg_i,           \* the poller's loop index
    lg_val,         \* the value the poller sends
    lg_using,       \* who is inside a call on the page
    lg_session,     \* whether the page shows a logged-in session
    lg_checks,      \* logged-in checks the poller has made
    lg_seen,        \* whether one of them saw a session
    lg_sent,        \* results received from the poller
    lg_err,         \* the error Login returns
    \* ---- Searcher.Search (src/internal/search/search.go) ----
    sr_max,         \* config.MaxResults
    sr_delay,       \* config.PaginationDelayMin / PaginationDelayMax
    sr_pc,          \* "idle" | "loop" | "done" | "panic"
    sr_page,        \* the result page the browser is on
    sr_collected,   \* resultsCollected
    sr_all,         \* len(allResults)
    sr_stored,      \* search results stored in this run
    sr_err,         \* "nil" | "navigate" : the error returned
    \* ---- ConnectionManager.generateNote ----
    nt_in,          \* the configuration and the arguments of the call
    nt_pc,          \* "idle" | "done" | "panic"
    nt_full,        \* the note before it is cut
    nt_note         \* the note returned

scrollVars == <<sc_prof, sc_pc, sc_dir, sc_distance, sc_chunks, sc_chunkSize,
                sc_i, sc_sum, sc_last, sc_err>>
schedVars  == <<now, s_cfg, chk, w_pc, w_now, w_next>>
ctorVars   == <<eng, eng_err, eng_seed, eng_prev>>
connVars   == <<c_cfg, db_requests, db_results, sent, c_ret>>
mainVars   == <<m_pc, m_queue, m_ops>>
typeVars   == <<ty_prof, ty_text, ty_failAt, ty_pc, ty_msPerChar, ty_i,
                ty_events, ty_last, ty_err>>
\* the engines that take no part in the scheduler, storage and main models
timingVars == <<tm_cfg, tm_call>>
mouseVars  == <<mv_prof, mv_start, mv_end, mv_failAt, mv_pc, mv_cps,
                mv_numPoints, mv_tail, mv_i, mv_n, mv_last, mv_err>>
loginVars  == <<lg_pc, lg_step, lg_ppc, lg_i, lg_val, lg_using, lg_session,
                lg_checks, lg_seen, lg_sent, lg_err>>
searchVars == <<sr_max, sr_delay, sr_pc, sr_page, sr_collected, sr_all, sr_stored,
                sr_err>>
noteVars   == <<nt_in, nt_pc, nt_full, nt_note>>
extraVars  == <<typeVars, timingVars, mouseVars, loginVars, searchVars,
                noteVars>>

vars == <<scrollVars, schedVars, ctorVars, connVars, mainVars, extraVars>>

\* what the actions of one component leave alone
exceptScroll == <<schedVars, ctorVars, connVars, mainVars, extraVars>>
exceptSched  == <<scrollVars, ctorVars, connVars, mainVars, extraVars>>
exceptCtor   == <<scrollVars, schedVars, connVars, mainVars, extraVars>>
exceptType   == <<scrollVars, schedVars, ctorVars, connVars, mainVars,
                 timingVars, mouseVars, loginVars, searchVars, noteVars>>
exceptTiming == <<scrollVars, ctorVars, connVars, mainVars, typeVars,
                 mouseVars, loginVars, searchVars, noteVars>>
exceptMouse  == <<scrollVars, schedVars, ctorVars, connVars, mainVars,
                 typeVars, timingVars, loginVars, searchVars, noteVars>>
exceptLogin  == <<scrollVars, schedVars, ctorVars, connVars, mainVars,
                 typeVars, timingVars, mouseVars, searchVars, noteVars>>
exceptSearch == <<scrollVars, schedVars, ctorVars, connVars, mainVars,
                 typeVars, timingVars, mouseVars, loginVars, noteVars>>
exceptNote   == <<scrollVars, schedVars, ctorVars, connVars, mainVars,
                 typeVars, timingVars, mouseVars, loginVars, searchVars>>
\* the scheduler's fields and wait loop, without the clock
schedRest    == <<s_cfg, chk, w_pc, w_now, w_next>>

----------------------------------------------------------------------------
(* Bounds *)

\* rand.Float64() draws, as percentages
FloatDraws == {0, 99}
\* largest of the short distances handed to ScrollDown / ScrollUp
MaxScrollDistance == 60
\* largest n for which every value of rand.Intn(n) is followed in a scroll;
\* for a larger n the two ends of the range are followed
MaxFullDraw == 7
\* number of days from which a scheduler run may start
NumDays == 7
\* minutes past the hour at which a run may start
MinuteSamples == {0, 30}
\* SendConnectionRequest calls in one run of the connection manager
MaxCalls == 3
\* largest connections.daily_limit / hourly_limit a run is checked with
MaxDailyLimit == 2
MaxHourlyLimit == 1

----------------------------------------------------------------------------
(* Go arithmetic *)

Abs(x) == IF x < 0 THEN -x ELSE x

\* Go's integer division truncates toward zero
GoDiv(a, b) ==
    IF (a >= 0) = (b > 0) THEN Abs(a) \div Abs(b) ELSE -(Abs(a) \div Abs(b))

\* the values rand.Intn(n) may return; empty when it panics
Intn(n) == IF n <= 0 THEN {} ELSE 0 .. (n - 1)

\* representative draws of rand.Intn(n) for a delay: both ends of the range
IntnEnds(n) == IF n <= 0 THEN {} ELSE {0, n - 1}

\* the draws of rand.Intn(n) followed in a scroll: all of a short range, the
\* ends of a long one
IntnDraws(n) == IF n <= MaxFullDraw THEN Intn(n) ELSE IntnEnds(n)

----------------------------------------------------------------------------
(* Calendar: time.Time in the scheduler's location *)

SecondsPerMinute == 60
MinutesPerHour   == 60
HoursPerDay      == 24
SecondsPerHour   == MinutesPerHour * SecondsPerMinute
SecondsPerDay    == HoursPerDay * SecondsPerHour

\* time.Weekday values
Sunday   == 0
Monday   == Sunday + 1
Saturday == 6
Friday   == Saturday - 1

\* now.Day() counted from the epoch, now.Hour(), now.Weekday()
DayOf(t)   == t \div SecondsPerDay
Hour(t)    == (t \div SecondsPerHour) % HoursPerDay
Weekday(t) == DayOf(t) % 7

\* time.Date(now.Year(), now.Month(), day, hour, 0, 0, 0, loc); Go normalises
\* an hour outside 0..23 into the neighbouring day, as the sum does
Date(day, hour) == day * SecondsPerDay + hour * SecondsPerHour

----------------------------------------------------------------------------
(* Scheduler: IsBusinessHours, WaitForBusinessHours *)

\* a variant that keeps the closing hour inside the window
IsBusinessHoursLate(s, t) ==
    IF ~s.weekendActivity /\ (Weekday(t) = Saturday \/ Weekday(t) = Sunday)
    THEN FALSE
    ELSE Hour(t) >= s.businessHoursStart /\ Hour(t) <= s.businessHoursEnd

\* IsBusinessHours evaluated at time t
IsBusinessHours(s, t) ==
    IF ~s.weekendActivity /\ (Weekday(t) = Saturday \/ Weekday(t) = Sunday)
    THEN FALSE
    ELSE Hour(t) >= s.businessHoursStart /\ Hour(t) < s.businessHoursEnd

\* a variant that advances a Saturday by one day only
NextBusinessTimeSatPlusOne(s, t) ==
    IF Weekday(t) = Saturday
    THEN Date(DayOf(t) + 1, s.businessHoursStart)
    ELSE IF Weekday(t) = Sunday
    THEN Date(DayOf(t) + 1, s.businessHoursStart)
    ELSE IF Hour(t) < s.businessHoursStart
    THEN Date(DayOf(t), s.businessHoursStart)
    ELSE Date(DayOf(t) + 1, s.businessHoursStart)

\* a variant that never looks beyond the current day
NextBusinessTimeToday(s, t) == Date(DayOf(t), s.businessHoursStart)

\* nextBusinessTime as one iteration of WaitForBusinessHours computes it
NextBusinessTime(s, t) ==
    IF Weekday(t) = Saturday
    THEN Date(DayOf(t) + 2, s.businessHoursStart)
    ELSE IF Weekday(t) = Sunday
    THEN Date(DayOf(t) + 1, s.businessHoursStart)
    ELSE IF Hour(t) < s.businessHoursStart
    THEN Date(DayOf(t), s.businessHoursStart)
    ELSE Date(DayOf(t) + 1, s.businessHoursStart)

\* time.Sleep(d) returns at once for d <= 0
SleepUntil(t, target) == IF target > t THEN target ELSE t

\* the schedule windows a run is checked with: start < end, both in 0..23
ScheduleWindows ==
    { [businessHoursStart |-> w[1], businessHoursEnd |-> w[2],
       weekendActivity |-> we, breakDurationMin |-> 5, breakDurationMax |-> 15,
       breakProbability |-> 10] :
      w \in {<<0, 1>>, <<0, 23>>, <<9, 17>>, <<9, 23>>, <<22, 23>>},
      we \in BOOLEAN }

\* the default schedule
DefaultWindow ==
    [businessHoursStart |-> 9, businessHoursEnd |-> 17,
     weekendActivity |-> FALSE, breakDurationMin |-> 5,
     breakDurationMax |-> 15, breakProbability |-> 10]

StartTimes ==
    { Date(d, h) + m * SecondsPerMinute :
        d \in 0 .. (NumDays - 1), h \in 0 .. (HoursPerDay - 1),
        m \in MinuteSamples }

NoCheck == [at |-> -1, result |-> FALSE]

SchedInit ==
    /\ now \in StartTimes
    /\ s_cfg \in ScheduleWindows
    /\ chk = NoCheck
    /\ w_pc = "idle"
    /\ w_now = -1
    /\ w_next = -1

\* a call of IsBusinessHours() by the orchestrator
IsBusinessHoursCall ==
    /\ w_pc = "idle"
    /\ chk = NoCheck
    /\ chk' = [at |-> now, result |-> IsBusinessHours(s_cfg, now)]
    /\ UNCHANGED <<now, s_cfg, w_pc, w_now, w_next>>
    /\ UNCHANGED exceptSched

\* WaitForBusinessHours is entered
WaitForBusinessHoursCall ==
    /\ w_pc = "idle"
    /\ w_pc' = "loop"
    /\ UNCHANGED <<now, s_cfg, chk, w_now, w_next>>
    /\ UNCHANGED exceptSched

\* one iteration of the loop: the guard is false, the next time is computed
\* and the goroutine sleeps until it
WaitForBusinessHoursIter ==
    /\ w_pc = "loop"
    /\ ~IsBusinessHours(s_cfg, now)
    /\ w_now' = now
    /\ w_next' = NextBusinessTime(s_cfg, now)
    /\ now' = SleepUntil(now, NextBusinessTime(s_cfg, now))
    /\ chk' = [at |-> now, result |-> IsBusinessHours(s_cfg, now)]
    /\ UNCHANGED <<s_cfg, w_pc>>
    /\ UNCHANGED exceptSched

\* the loop guard holds: WaitForBusinessHours returns
WaitForBusinessHoursReturn ==
    /\ w_pc = "loop"
    /\ IsBusinessHours(s_cfg, now)
    /\ w_pc' = "returned"
    /\ chk' = [at |-> now, result |-> IsBusinessHours(s_cfg, now)]
    /\ UNCHANGED <<now, s_cfg, w_now, w_next>>
    /\ UNCHANGED exceptSched

SchedNext ==
    \/ IsBusinessHoursCall
    \/ WaitForBusinessHoursCall
    \/ WaitForBusinessHoursIter
    \/ WaitForBusinessHoursReturn


----------------------------------------------------------------------------
(* Scroller: ScrollDown, ScrollUp and the operations derived from them *)

ChunksMin   == 5
ChunksRange == 10

\* the Scroller instances a run is checked with (delays in ms)
ScrollProfiles ==
    { [speedMin |-> 50, speedMax |-> 51, scrollBackProbability |-> sb,
       pauseProbability |-> pp] : sb \in {0, 100}, pp \in {0, 100} }

\* the distance SendConnectionRequest scrolls (the callers use 300, 800 and
\* 100 to 699)
CallerScrollDistances == {300}

ScrollDistances ==
    {0, 1, 9, 10, 27, 28, MaxScrollDistance} \cup CallerScrollDistances

\* scrollAmount := chunkSize + s.rand.Intn(chunkSize/2) - chunkSize/4
ScrollAmount(chunkSize, r) == chunkSize + r - GoDiv(chunkSize, 4)

\* s.rand.Float64() < p, over the draws the source may make
Hits(p)   == \E d \in FloatDraws : d < p
Misses(p) == \E d \in FloatDraws : ~(d < p)

\* what may follow the pacing sleep of a chunk: nothing, or the random pause
\* time.Sleep(500 + s.rand.Intn(1500) ms)
PauseSteps(prof) ==
    { << >> : x \in {1} \cap {IF Misses(prof.pauseProbability) THEN 1 ELSE 0} }
    \cup
    { << [kind |-> "sleep", ms |-> 500 + pauseMs] >> :
        pauseMs \in IF Hits(prof.pauseProbability) THEN IntnEnds(1500) ELSE {} }

\* the forward part of an iteration: the chunk, the pacing sleep, the pause
ForwardSteps(prof, delta) ==
    { << [kind |-> "scroll", delta |-> delta],
         [kind |-> "sleep", ms |-> prof.speedMin + speed] >> \o pause :
        speed \in IntnEnds(prof.speedMax - prof.speedMin + 1),
        pause \in PauseSteps(prof) }

\* a variant that may scroll back the whole chunk
ScrollBackStepsWhole(scrollAmount) ==
    { << [kind |-> "scroll", delta |-> -back],
         [kind |-> "sleep", ms |-> 200 + settleMs] >> :
        back \in IntnDraws(scrollAmount + 1), settleMs \in IntnEnds(300) }

\* the scroll-back of ScrollDown: page.Mouse.Scroll(0, -scrollBack, 1), then
\* time.Sleep(200 + s.rand.Intn(300) ms)
ScrollBackSteps(scrollAmount) ==
    { << [kind |-> "scroll", delta |-> -back],
         [kind |-> "sleep", ms |-> 200 + settleMs] >> :
        back \in IntnDraws(GoDiv(scrollAmount, 2)), settleMs \in IntnEnds(300) }

ScrollInit ==
    /\ sc_prof \in ScrollProfiles
    /\ sc_pc = "idle"
    /\ sc_dir = "none"
    /\ sc_distance = 0
    /\ sc_chunks = 0
    /\ sc_chunkSize = 0
    /\ sc_i = 0
    /\ sc_sum = 0
    /\ sc_last = << >>
    /\ sc_err = "nil"

\* the head of ScrollDown / ScrollUp: chunks and chunkSize are chosen
ScrollBegin(dir, distance) ==
    /\ sc_pc = "idle"
    /\ \E c \in Intn(ChunksRange) :
         /\ sc_chunks' = ChunksMin + c
         /\ sc_chunkSize' = GoDiv(distance, ChunksMin + c)
    /\ sc_pc' = "loop"
    /\ sc_dir' = dir
    /\ sc_distance' = distance
    /\ sc_i' = 0
    /\ sc_sum' = 0
    /\ sc_last' = << >>
    /\ UNCHANGED <<sc_prof, sc_err>>
    /\ UNCHANGED exceptScroll

ScrollDownCall == \E d \in ScrollDistances : ScrollBegin("down", d)

ScrollUpCall == \E d \in ScrollDistances : ScrollBegin("up", d)

\* page.MustEval panics when the evaluation fails (page closed, execution
\* context destroyed, element detached): the call aborts before any chunk
MustEvalPanic ==
    /\ sc_pc = "idle"
    /\ sc_pc' = "panic"
    /\ UNCHANGED <<sc_prof, sc_dir, sc_distance, sc_chunks, sc_chunkSize,
                   sc_i, sc_sum, sc_last, sc_err>>
    /\ UNCHANGED exceptScroll

\* ScrollToTop: ScrollUp(page, window.pageYOffset)
ScrollToTopCall ==
    \/ MustEvalPanic
    \/ \E currentScroll \in {0, 28, MaxScrollDistance} :
           ScrollBegin("up", currentScroll)

\* ScrollToBottom: ScrollDown(page, scrollHeight - pageYOffset)
ScrollToBottomCall ==
    \/ MustEvalPanic
    \/ \E pageHeight \in {28, MaxScrollDistance} :
       \E currentScroll \in {c \in {0, 28, MaxScrollDistance} : c <= pageHeight} :
           ScrollBegin("down", pageHeight - currentScroll)

\* ScrollToElement: the distance is routed by its sign; 0 scrolls nothing
ScrollToElementCall ==
    \/ MustEvalPanic
    \/ \E yVal \in {0, 20, MaxScrollDistance}, viewport \in {0, 40},
          currentScroll \in {0, 20} :
           LET distance == (yVal - GoDiv(viewport, 2)) - currentScroll IN
           IF distance > 0 THEN ScrollBegin("down", distance)
           ELSE IF distance < 0 THEN ScrollBegin("up", -distance)
           ELSE /\ sc_pc = "idle"
                /\ sc_pc' = "done"
                /\ UNCHANGED <<sc_prof, sc_dir, sc_distance, sc_chunks,
                               sc_chunkSize, sc_i, sc_sum, sc_last, sc_err>>
                /\ UNCHANGED exceptScroll

\* s.rand.Intn(chunkSize/2) panics: the call aborts
ScrollPanicChunk ==
    /\ sc_pc = "loop"
    /\ sc_i < sc_chunks
    /\ Intn(GoDiv(sc_chunkSize, 2)) = {}
    /\ sc_pc' = "panic"
    /\ UNCHANGED <<sc_prof, sc_dir, sc_distance, sc_chunks, sc_chunkSize,
                   sc_i, sc_sum, sc_last, sc_err>>
    /\ UNCHANGED exceptScroll

\* page.Mouse.Scroll returns an error: the call returns it
ScrollFail ==
    /\ sc_pc = "loop"
    /\ sc_i < sc_chunks
    /\ Intn(GoDiv(sc_chunkSize, 2)) # {}
    /\ sc_pc' = "done"
    /\ sc_err' = "scroll"
    /\ sc_last' = << >>
    /\ UNCHANGED <<sc_prof, sc_dir, sc_distance, sc_chunks, sc_chunkSize,
                   sc_i, sc_sum>>
    /\ UNCHANGED exceptScroll

\* one iteration of ScrollDown
ScrollDownStep ==
    /\ sc_pc = "loop"
    /\ sc_dir = "down"
    /\ sc_i < sc_chunks
    /\ \E r \in IntnDraws(GoDiv(sc_chunkSize, 2)) :
         LET scrollAmount == ScrollAmount(sc_chunkSize, r) IN
         \E forward \in ForwardSteps(sc_prof, scrollAmount) :
             /\ sc_sum' = sc_sum + scrollAmount
             /\ sc_i' = sc_i + 1
             /\ \/ /\ Misses(sc_prof.scrollBackProbability)
                   /\ sc_pc' = "loop"
                   /\ sc_last' = forward
                \/ /\ Hits(sc_prof.scrollBackProbability)
                   /\ IF Intn(GoDiv(scrollAmount, 2)) = {}
                      THEN \* s.rand.Intn(scrollAmount / 2) panics
                           /\ sc_pc' = "panic"
                           /\ sc_last' = forward
                      ELSE /\ sc_pc' = "loop"
                           /\ \E back \in ScrollBackSteps(scrollAmount) :
                                sc_last' = forward \o back
    /\ UNCHANGED <<sc_prof, sc_dir, sc_distance, sc_chunks, sc_chunkSize, sc_err>>
    /\ UNCHANGED exceptScroll

\* one iteration of ScrollUp
ScrollUpStep ==
    /\ sc_pc = "loop"
    /\ sc_dir = "up"
    /\ sc_i < sc_chunks
    /\ \E r \in IntnDraws(GoDiv(sc_chunkSize, 2)) :
         LET scrollAmount == ScrollAmount(sc_chunkSize, r) IN
         \E forward \in ForwardSteps(sc_prof, -scrollAmount) :
             /\ sc_sum' = sc_sum - scrollAmount
             /\ sc_i' = sc_i + 1
             /\ sc_last' = forward
    /\ UNCHANGED <<sc_prof, sc_pc, sc_dir, sc_distance, sc_chunks, sc_chunkSize,
                   sc_err>>
    /\ UNCHANGED exceptScroll

\* the loop is over: return nil
ScrollReturn ==
    /\ sc_pc = "loop"
    /\ sc_i = sc_chunks
    /\ sc_pc' = "done"
    /\ UNCHANGED <<sc_prof, sc_dir, sc_distance, sc_chunks, sc_chunkSize,
                   sc_i, sc_sum, sc_last, sc_err>>
    /\ UNCHANGED exceptScroll

ScrollNext ==
    \/ ScrollDownCall
    \/ ScrollUpCall
    \/ ScrollToTopCall
    \/ ScrollToBottomCall
    \/ ScrollToElementCall
    \/ ScrollPanicChunk
    \/ ScrollFail
    \/ ScrollDownStep
    \/ ScrollUpStep
    \/ ScrollReturn

----------------------------------------------------------------------------
(* Engine constructors and config.validateConfig *)

\* time.LoadLocation(name) succeeds for the zones of the tz database
KnownZones == {"", "UTC", "Local", "America/New_York"}
LoadLocationOk(name) == name \in KnownZones

\* arguments the constructors are called with, valid and invalid ones
ProbabilityArgs == {-10, 0, 50, 100, 150}
BezierPointsArgs == {1, 2, 5}
MinMaxArgs == {<<40, 80>>, <<60, 60>>, <<80, 40>>, <<0, 80>>}
HourArgs == {<<9, 17>>, <<17, 9>>, <<9, 9>>, <<0, 23>>}
TimezoneArgs == {"UTC", "America/New_York", "Mars/Olympus"}

NoEngine == [kind |-> "none"]

\* NewMouseMover returns the instance, whatever the arguments
NewMouseMover(bezierPoints, speedVariation, overshootProb, microCorrectionProb) ==
    [err  |-> "nil",
     inst |-> [kind |-> "mouse", bezierPoints |-> bezierPoints,
               speedVariation |-> speedVariation,
               overshootProb |-> overshootProb,
               microCorrectionProb |-> microCorrectionProb]]

\* NewTyper returns the instance, whatever the arguments
NewTyper(wpmMin, wpmMax, typoProbability, pauseProbability) ==
    [err  |-> "nil",
     inst |-> [kind |-> "typer", wpmMin |-> wpmMin, wpmMax |-> wpmMax,
               typoProbability |-> typoProbability,
               pauseProbability |-> pauseProbability]]

\* NewScroller returns the instance, whatever the arguments
NewScroller(speedMin, speedMax, scrollBackProb, pauseProb) ==
    [err  |-> "nil",
     inst |-> [kind |-> "scroller", speedMin |-> speedMin, speedMax |-> speedMax,
               scrollBackProbability |-> scrollBackProb,
               pauseProbability |-> pauseProb]]

\* NewScheduler fails only when the timezone does not load
NewScheduler(businessHoursStart, businessHoursEnd, timezone, weekendActivity, breakDurationMin, breakDurationMax, breakProbability) ==
    IF ~LoadLocationOk(timezone)
    THEN [err |-> "config", inst |-> NoEngine]
    ELSE [err  |-> "nil",
          inst |-> [kind |-> "scheduler",
                    businessHoursStart |-> businessHoursStart,
                    businessHoursEnd |-> businessHoursEnd,
                    timezone |-> timezone,
                    weekendActivity |-> weekendActivity,
                    breakDurationMin |-> breakDurationMin,
                    breakDurationMax |-> breakDurationMax,
                    breakProbability |-> breakProbability]]

\* validateConfig: the first failing check is the error
validateConfig(config) ==
    IF config.maxResults <= 0 THEN "search.max_results"
    ELSE IF config.connectionsDailyLimit <= 0 THEN "connections.daily_limit"
    ELSE IF config.messagingDailyLimit <= 0 THEN "messaging.daily_limit"
    ELSE IF config.timeoutSeconds <= 0 THEN "browser.timeout_seconds"
    ELSE IF config.userAgents = 0 THEN "browser.user_agents"
    ELSE IF ~LoadLocationOk(config.timezone) THEN "invalid timezone"
    ELSE "nil"

\* readings of time.Now().UnixNano()
UnixNanos == {1, 2}

CtorInit ==
    /\ eng = NoEngine
    /\ eng_err = "nil"
    /\ eng_seed = 0
    /\ eng_prev = [seed |-> 0, same |-> FALSE]

\* a constructor returns r; the instance's random source is
\* rand.New(rand.NewSource(time.Now().UnixNano()))
Construct(r) ==
    /\ eng' = r.inst
    /\ eng_err' = r.err
    /\ eng_seed' \in IF r.err = "nil" THEN UnixNanos ELSE {0}
    /\ eng_prev' = [seed |-> eng_seed, same |-> (r.err = "nil" /\ r.inst = eng)]
    /\ UNCHANGED exceptCtor

NewMouseMoverCall ==
    \E n \in BezierPointsArgs, sv \in ProbabilityArgs, op \in ProbabilityArgs,
       mp \in ProbabilityArgs :
        Construct(NewMouseMover(n, sv, op, mp))

NewTyperCall ==
    \E w \in MinMaxArgs, tp \in ProbabilityArgs, pp \in ProbabilityArgs :
        Construct(NewTyper(w[1], w[2], tp, pp))

NewScrollerCall ==
    \E sp \in MinMaxArgs, sb \in ProbabilityArgs, pp \in ProbabilityArgs :
        Construct(NewScroller(sp[1], sp[2], sb, pp))

NewSchedulerCall ==
    \E h \in HourArgs, tz \in TimezoneArgs, we \in BOOLEAN, b \in MinMaxArgs,
       bp \in ProbabilityArgs :
        Construct(NewScheduler(h[1], h[2], tz, we, b[1], b[2], bp))

\* LoadConfig: the file is validated; main builds the scheduler from a
\* configuration that passed (main.go)
LoadConfigCall ==
    \E config \in [maxResults : {0, 10}, connectionsDailyLimit : {0, 20},
                   messagingDailyLimit : {0, 10}, timeoutSeconds : {0, 30},
                   userAgents : {0, 1}, timezone : TimezoneArgs,
                   hours : HourArgs, breakProbability : ProbabilityArgs] :
        IF validateConfig(config) # "nil"
        THEN /\ eng' = NoEngine
             /\ eng_err' = "config"
             /\ eng_seed' = 0
             /\ eng_prev' = [seed |-> eng_seed, same |-> FALSE]
             /\ UNCHANGED exceptCtor
        ELSE Construct(NewScheduler(config.hours[1], config.hours[2],
                                    config.timezone, FALSE, 5, 15,
                                    config.breakProbability))

CtorNext ==
    \/ NewMouseMoverCall
    \/ NewTyperCall
    \/ NewScrollerCall
    \/ NewSchedulerCall
    \/ LoadConfigCall


----------------------------------------------------------------------------
(* storage.DB *)

Profiles == {"in/ana", "in/bo", "in/cy"}

\* GetConnectionRequestsCountByDate(date):
\*   SELECT COUNT(*) ... WHERE sent_at >= startOfDay AND sent_at < endOfDay
GetConnectionRequestsCountByDate(requests, date) ==
    LET startOfDay == Date(DayOf(date), 0)
        endOfDay   == startOfDay + SecondsPerDay
    IN  Cardinality({r \in requests : r.sentAt >= startOfDay /\ r.sentAt < endOfDay})

\* IsProfileContacted: SELECT COUNT(*) ... WHERE profile_url = ?  > 0
IsProfileContacted(requests, profileURL) ==
    \E r \in requests : r.url = profileURL

\* SaveConnectionRequest: INSERT; profile_url is UNIQUE
SaveConnectionRequest(requests, profileURL, sentAt) ==
    IF \E r \in requests : r.url = profileURL
    THEN requests
    ELSE requests \cup {[url |-> profileURL, sentAt |-> sentAt]}

\* MarkProfileContacted: UPDATE search_results SET contacted = 1 WHERE ...
MarkProfileContacted(results, profileURL) ==
    [i \in DOMAIN results |->
        IF results[i].url = profileURL
        THEN [results[i] EXCEPT !.contacted = TRUE]
        ELSE results[i]]

\* SaveSearchResult: INSERT OR IGNORE; profile_url is UNIQUE
SaveSearchResult(results, profileURL, contacted) ==
    IF \E i \in DOMAIN results : results[i].url = profileURL
    THEN results
    ELSE Append(results, [url |-> profileURL, contacted |-> contacted])

\* GetUncontactedProfiles(limit): ... WHERE contacted = 0 LIMIT ?
RECURSIVE Uncontacted(_)
Uncontacted(results) ==
    IF results = << >> THEN << >>
    ELSE IF Head(results).contacted THEN Uncontacted(Tail(results))
    ELSE << Head(results).url >> \o Uncontacted(Tail(results))

GetUncontactedProfiles(results, limit) ==
    LET all == Uncontacted(results) IN
    IF Len(all) <= limit THEN all ELSE SubSeq(all, 1, limit)

----------------------------------------------------------------------------
(* ConnectionManager.SendConnectionRequest *)

\* TimingController.ThinkTime() in seconds: thinkTimeMin + Intn(max-min+1)
ThinkTimeMin == 3
ThinkTimeMax == 3
ThinkTime == { ThinkTimeMin + d : d \in IntnEnds(ThinkTimeMax - ThinkTimeMin + 1) }

ConnectionsConfigs ==
    [DailyLimit : 1 .. MaxDailyLimit, HourlyLimit : 1 .. MaxHourlyLimit,
     CooldownBetweenRequestsMin : {45}, CooldownBetweenRequestsMax : {45}]

\* the cooldown after a request, in seconds
Cooldown(cfg) ==
    { cfg.CooldownBetweenRequestsMin + d :
        d \in IntnEnds(cfg.CooldownBetweenRequestsMax
                       - cfg.CooldownBetweenRequestsMin + 1) }

\* how far a call gets on the site: Navigate / WaitLoad fail, the Connect
\* button is not found or its click fails, the Send click fails, or the
\* request is sent
SiteOutcomes == {"navigate", "connect", "send", "sent"}

\* the storage calls of one SendConnectionRequest that return an error:
\* none, the count of checkDailyLimit, IsProfileContacted, or, once the
\* request is sent, SaveConnectionRequest, MarkProfileContacted or both
DbOutcomes == {"ok", "count", "contacted", "save", "mark", "savemark"}

\* the note step: no "Add a note" option (or its click fails), a note is
\* generated and typed, or generateNote panics on its slice expression
NoteOutcomes == {"none", "typed", "panic"}

\* seconds taken by ScrollDown(page, 300) and the ShortPause after it
ViewWaits == {2}
\* seconds taken by ClickElement on the Connect button and the ShortPause
\* after it
ClickWaits == {1}
\* seconds taken by the ShortPause before the note and by typing it
NoteWaits == {1}

NoReturn ==
    [n |-> 0, err |-> "none", count |-> 0, limit |-> 0, touched |-> FALSE,
     dup |-> FALSE]

\* checkDailyLimit: the error when count >= DailyLimit
checkDailyLimit(cfg, requests, t) ==
    GetConnectionRequestsCountByDate(requests, t) >= cfg.DailyLimit

\* One call of SendConnectionRequest entered at time t.  The value gives the
\* next database tables, the requests delivered, the clock and the return.
SendConnectionRequest(t, profileURL, site, dbr, note, tt1, tt2, w1, w2, w3, cd) ==
    LET count == GetConnectionRequestsCountByDate(db_requests, t)
        same  == [requests |-> db_requests, results |-> db_results,
                  sent |-> sent, now |-> t]
        ret(err, touched) ==
            [n |-> c_ret.n + 1, err |-> err, count |-> count,
             limit |-> c_cfg.DailyLimit, touched |-> touched,
             dup |-> \E i \in DOMAIN sent : sent[i].url = profileURL]
        viewed  == t + tt1 + w1
        clicked == viewed + w2
        sendAt  == clicked + (IF note = "typed" THEN w3 + tt2 ELSE 0)
    IN
    IF dbr = "count" THEN [same EXCEPT !.now = t] @@ [ret |-> ret("db", FALSE)]
    ELSE IF checkDailyLimit(c_cfg, db_requests, t)
    THEN same @@ [ret |-> ret("limit", FALSE)]
    ELSE IF dbr = "contacted" THEN same @@ [ret |-> ret("db", FALSE)]
    ELSE IF IsProfileContacted(db_requests, profileURL)
    THEN same @@ [ret |-> ret("nil", FALSE)]
    ELSE IF site = "navigate" THEN same @@ [ret |-> ret("site", TRUE)]
    ELSE IF site = "connect"
    THEN [same EXCEPT !.now = viewed] @@ [ret |-> ret("site", TRUE)]
    ELSE IF note = "panic"
    THEN [same EXCEPT !.now = clicked] @@ [ret |-> ret("panic", TRUE)]
    ELSE IF site = "send"
    THEN [same EXCEPT !.now = sendAt] @@ [ret |-> ret("site", TRUE)]
    ELSE \* the request is sent; storage errors are logged and ignored
         [requests |-> IF dbr \in {"save", "savemark"} THEN db_requests
                       ELSE SaveConnectionRequest(db_requests, profileURL, sendAt),
          results  |-> IF dbr \in {"mark", "savemark"} THEN db_results
                       ELSE MarkProfileContacted(db_results, profileURL),
          sent     |-> Append(sent, [url |-> profileURL, at |-> sendAt]),
          now      |-> sendAt + cd,
          ret      |-> ret("nil", TRUE)]

ApplySend(r) ==
    /\ db_requests' = r.requests
    /\ db_results' = r.results
    /\ sent' = r.sent
    /\ now' = r.now
    /\ c_ret' = r.ret

\* the tables at the start of a run: k requests recorded earlier today
LegacySeq == << "in/old1", "in/old2", "in/old3", "in/old4", "in/old5" >>
LegacyRows(k, t) ==
    { [url |-> LegacySeq[i], sentAt |-> Date(DayOf(t), 0)] : i \in 1 .. k }

ConnInit ==
    /\ c_cfg \in ConnectionsConfigs
    /\ \E k \in 0 .. (c_cfg.DailyLimit + 1) : db_requests = LegacyRows(k, now)
    /\ db_results = << [url |-> "in/ana", contacted |-> FALSE],
                       [url |-> "in/bo", contacted |-> FALSE] >>
    /\ sent = << >>
    /\ c_ret = NoReturn

\* the time that may pass between two calls: none, an hour, or the rest of
\* the day
Gaps(t) == {0, SecondsPerHour, Date(DayOf(t) + 1, 0) - t}

\* a caller invokes SendConnectionRequest for some profile, some time after
\* the previous call returned
ConnCall ==
    /\ c_ret.n < MaxCalls
    /\ c_ret.err # "panic"
    /\ \E gap \in Gaps(now), profileURL \in Profiles, site \in SiteOutcomes,
          dbr \in DbOutcomes, note \in NoteOutcomes, tt1 \in ThinkTime,
          tt2 \in ThinkTime, w1 \in ViewWaits, w2 \in ClickWaits,
          w3 \in NoteWaits, cd \in Cooldown(c_cfg) :
         ApplySend(SendConnectionRequest(now + gap, profileURL, site, dbr,
                                         note, tt1, tt2, w1, w2, w3, cd))
    /\ UNCHANGED <<c_cfg, schedRest, scrollVars, ctorVars, extraVars, mainVars>>

ConnNext == ConnCall

----------------------------------------------------------------------------
(* main: the automation workflow *)

\* seconds a Login may take: a saved session, or the five-minute wait
LoginSeconds == {5, 300}
\* seconds a Search may take
SearchSeconds == {60}
\* the profiles a Search may find, in page order
SearchFinds == { << >>, << "in/ana" >>, << "in/ana", "in/bo" >>,
                 << "in/bo", "in/cy", "in/ana" >> }

RECURSIVE SaveAll(_, _, _)
\* Search stores each profile found, flagged by IsProfileContacted
SaveAll(results, requests, found) ==
    IF found = << >> THEN results
    ELSE SaveAll(SaveSearchResult(results, Head(found),
                                  IsProfileContacted(requests, Head(found))),
                 requests, Tail(found))

\* TakeBreak: breakDurationMin + Intn(breakDurationMax - min + 1) minutes
BreakSeconds(s) ==
    { (s.breakDurationMin + d) * SecondsPerMinute :
        d \in IntnEnds(s.breakDurationMax - s.breakDurationMin + 1) }

\* err.Error() == fmt.Sprintf("daily connection limit reached (%d/%d)",
\*                            DailyLimit, DailyLimit)
IsLimitMessage(ret, cfg) ==
    ret.err = "limit" /\ ret.count = cfg.DailyLimit /\ ret.limit = cfg.DailyLimit

NoOp == [kind |-> "none", at |-> -1]

MainInit ==
    /\ m_pc = "start"
    /\ m_queue = << >>
    /\ m_ops = NoOp

\* main.go:161-165: the business hours check before the workflow
MainBusinessHours ==
    /\ m_pc = "start"
    /\ chk' = [at |-> now, result |-> IsBusinessHours(s_cfg, now)]
    /\ IF IsBusinessHours(s_cfg, now)
       THEN m_pc' = "login" /\ w_pc' = w_pc
       ELSE m_pc' = "wait" /\ w_pc' = "loop"
    /\ UNCHANGED <<now, s_cfg, w_now, w_next, m_queue, m_ops>>
    /\ UNCHANGED <<scrollVars, ctorVars, extraVars, connVars>>

\* WaitForBusinessHours has returned to main
MainResume ==
    /\ m_pc = "wait"
    /\ w_pc = "returned"
    /\ m_pc' = "login"
    /\ UNCHANGED <<m_queue, m_ops, schedVars, scrollVars, ctorVars, extraVars, connVars>>

\* authenticator.Login: a failure is fatal
MainLogin ==
    /\ m_pc = "login"
    /\ m_ops' = [kind |-> "login", at |-> now]
    /\ \E ok \in BOOLEAN, d \in LoginSeconds :
         /\ now' = now + d
         /\ m_pc' = IF ok THEN "search" ELSE "exit"
    /\ UNCHANGED <<m_queue, schedRest, scrollVars, ctorVars, extraVars, connVars>>

\* searcher.Search: the profiles found are stored; an error is only logged.
\* Search may panic on the way to a next page (the modulo of the pagination
\* delay, MustScrollIntoView, page.MustEval of ScrollToBottom), after the
\* profiles of the pages before it are stored; main does not recover
MainSearch ==
    /\ m_pc = "search"
    /\ m_ops' = [kind |-> "search", at |-> now]
    /\ \E found \in SearchFinds, d \in SearchSeconds, panics \in BOOLEAN :
         /\ panics => found # << >>
         /\ now' = now + d
         /\ db_results' = SaveAll(db_results, db_requests, found)
         /\ m_pc' = IF panics THEN "panic" ELSE "fetch"
    /\ UNCHANGED <<m_queue, c_cfg, db_requests, sent, c_ret, schedRest,
                   scrollVars, ctorVars, extraVars>>

\* db.GetUncontactedProfiles(cfg.Connections.DailyLimit)
MainFetch ==
    /\ m_pc = "fetch"
    /\ \E ok \in BOOLEAN :
         IF ok
         THEN /\ m_queue' = GetUncontactedProfiles(db_results, c_cfg.DailyLimit)
              /\ m_pc' = "loop"
         ELSE /\ m_queue' = << >>
              /\ m_pc' = "done"
    /\ UNCHANGED <<m_ops, schedVars, scrollVars, ctorVars, extraVars, connVars>>

\* one iteration of the connection loop: the break, then the request, then
\* the check of the error message
MainLoopIter ==
    /\ m_pc = "loop"
    /\ m_queue # << >>
    /\ \E pause \in {0} \cup (IF Hits(s_cfg.breakProbability)
                              THEN BreakSeconds(s_cfg) ELSE {}),
          site \in SiteOutcomes, dbr \in DbOutcomes, note \in NoteOutcomes,
          tt1 \in ThinkTime, tt2 \in ThinkTime, w1 \in ViewWaits,
          w2 \in ClickWaits, w3 \in NoteWaits, cd \in Cooldown(c_cfg) :
         /\ pause = 0 => Misses(s_cfg.breakProbability)
         /\ LET r == SendConnectionRequest(now + pause, Head(m_queue), site,
                                           dbr, note, tt1, tt2, w1, w2, w3, cd)
            IN  /\ ApplySend(r)
                /\ m_ops' = IF r.ret.touched
                            THEN [kind |-> "connect", at |-> now + pause]
                            ELSE m_ops
                /\ IF r.ret.err = "panic"
                   THEN m_pc' = "panic" /\ m_queue' = m_queue
                   ELSE IF IsLimitMessage(r.ret, c_cfg)
                   THEN m_pc' = "done" /\ m_queue' = << >>
                   ELSE m_pc' = "loop" /\ m_queue' = Tail(m_queue)
    /\ UNCHANGED <<c_cfg, schedRest, scrollVars, ctorVars, extraVars>>

\* the loop has visited every profile
MainLoopEnd ==
    /\ m_pc = "loop"
    /\ m_queue = << >>
    /\ m_pc' = "done"
    /\ UNCHANGED <<m_queue, m_ops, schedVars, scrollVars, ctorVars, extraVars, connVars>>

MainNext ==
    \/ MainBusinessHours
    \/ WaitForBusinessHoursIter
    \/ WaitForBusinessHoursReturn
    \/ MainResume
    \/ MainLogin
    \/ MainSearch
    \/ MainFetch
    \/ MainLoopIter
    \/ MainLoopEnd

----------------------------------------------------------------------------
(* Typer.TypeText *)

\* longest text handed to TypeText
MaxTextLen == 3

\* the Typer instances a run is checked with: 0 < wpmMin <= wpmMax
TypingProfiles ==
    { [wpmMin |-> w[1], wpmMax |-> w[2], typoProbability |-> tp,
       pauseProbability |-> pp] :
        w \in {<<60, 60>>, <<40, 80>>, <<6000, 6001>>},
        tp \in {0, 50, 100}, pp \in {0, 100} }

\* the texts typed, one string per rune
Texts ==
    { t \in { << >>, << "a" >>, << "a", "b" >>, << "h", "i", "." >>,
              << "a", " ", "z" >>, << "o", "k", "!" >> } : Len(t) <= MaxTextLen }

\* getRandomChar: chars[t.rand.Intn(len(chars))], first and last letter
getRandomChar == { "a", "z" }

\* a key event handed to page.Keyboard; n is its number in the call
KeyEvent(kind, value, n) ==
    [kind |-> kind, value |-> value, ok |-> (n # ty_failAt)]

Sleep(role, ms) == [kind |-> "sleep", role |-> role, ms |-> ms]

\* a variant whose pause may last one millisecond more
PrePauseStepsLonger(prof) ==
    { << >> : x \in {1} \cap {IF Misses(prof.pauseProbability) THEN 1 ELSE 0} }
    \cup
    { << Sleep("prepause", 200 + d) >> :
        d \in IF Hits(prof.pauseProbability) THEN IntnEnds(501) ELSE {} }

\* the random pause before a character: 200 + t.rand.Intn(500) ms
PrePauseSteps(prof) ==
    { << >> : x \in {1} \cap {IF Misses(prof.pauseProbability) THEN 1 ELSE 0} }
    \cup
    { << Sleep("prepause", 200 + d) >> :
        d \in IF Hits(prof.pauseProbability) THEN IntnEnds(500) ELSE {} }

\* a variant that leaves the wrong character in place
TypoStepsUncorrected(prof, i, msPerChar, n) ==
    { << >> : x \in {1} \cap {IF Misses(prof.typoProbability) \/ ~(i > 0)
                              THEN 1 ELSE 0} }
    \cup
    { << KeyEvent("typo", wrongChar, n + 1), Sleep("typo", msPerChar + d1) >> :
        wrongChar \in IF Hits(prof.typoProbability) /\ i > 0
                      THEN getRandomChar ELSE {},
        d1 \in IntnEnds(100) }

\* the simulated typo before the character at byte index i: a wrong
\* character, a sleep, a backspace, a sleep; n key events went before
TypoSteps(prof, i, msPerChar, n) ==
    { << >> : x \in {1} \cap {IF Misses(prof.typoProbability) \/ ~(i > 0)
                              THEN 1 ELSE 0} }
    \cup
    { << KeyEvent("typo", wrongChar, n + 1), Sleep("typo", msPerChar + d1),
         KeyEvent("backspace", "Backspace", n + 2),
         Sleep("backspace", msPerChar + d2) >> :
        wrongChar \in IF Hits(prof.typoProbability) /\ i > 0
                      THEN getRandomChar ELSE {},
        d1 \in IntnEnds(100), d2 \in IntnEnds(100) }

\* delay := msPerChar + t.rand.Intn(msPerChar/2) - msPerChar/4
CharDelay(msPerChar, r) == msPerChar + r - GoDiv(msPerChar, 4)

\* the sleeps after the character: the delay, then the longer pause after
\* punctuation or the pause between words
AfterSteps(char, msPerChar) ==
    { << Sleep("delay", CharDelay(msPerChar, r)) >> \o extra :
        r \in IntnEnds(GoDiv(msPerChar, 2)),
        extra \in IF char \in {".", ",", "!", "?"}
                  THEN { << Sleep("punctuation", 100 + d) >> : d \in IntnEnds(300) }
                  ELSE IF char = " "
                  THEN { << Sleep("word", 50 + d) >> : d \in IntnEnds(150) }
                  ELSE { << >> } }

\* the key events among the steps of an iteration
IsKey(step) == step.kind # "sleep"
Keys(steps) == SelectSeq(steps, IsKey)

TypeInit ==
    /\ ty_prof \in TypingProfiles
    /\ ty_text \in Texts
    /\ ty_failAt \in 0 .. 3
    /\ ty_pc = "idle"
    /\ ty_msPerChar = 0
    /\ ty_i = 0
    /\ ty_events = << >>
    /\ ty_last = << >>
    /\ ty_err = "nil"

\* the head of ClearAndType: Focus, Ctrl+A, Backspace, then TypeText is
\* called; the errors of the keyboard calls are not looked at
ClearAndTypeCall ==
    /\ ty_pc = "idle"
    /\ \/ /\ ty_pc' = "done"
          /\ ty_err' = "focus"
          /\ UNCHANGED <<ty_events, ty_last>>
       \/ \E d1 \in IntnEnds(100), d2 \in IntnEnds(200) :
             LET press   == KeyEvent("press", "ControlLeft", 1)
                 select  == KeyEvent("select", "a", 2)
                 release == KeyEvent("release", "ControlLeft", 3)
                 clear   == KeyEvent("clear", "Backspace", 4)
             IN  /\ ty_events' = << press, select, release, clear >>
                 /\ ty_last' = << press, select, release,
                                  Sleep("select", 50 + d1), clear,
                                  Sleep("clear", 100 + d2) >>
                 /\ ty_pc' = "typetext"
                 /\ ty_err' = ty_err
    /\ UNCHANGED <<ty_prof, ty_text, ty_failAt, ty_msPerChar, ty_i>>
    /\ UNCHANGED exceptType

\* element.Focus() fails: TypeText returns the error
TypeTextFocusFail ==
    /\ ty_pc \in {"idle", "typetext"}
    /\ ty_pc' = "done"
    /\ ty_err' = "focus"
    /\ UNCHANGED <<ty_prof, ty_text, ty_failAt, ty_msPerChar, ty_i, ty_events,
                   ty_last>>
    /\ UNCHANGED exceptType

\* the head of TypeText: wpm, cpm and msPerChar are chosen
TypeTextCall ==
    /\ ty_pc \in {"idle", "typetext"}
    /\ IF Intn(ty_prof.wpmMax - ty_prof.wpmMin + 1) = {}
       THEN ty_pc' = "panic" /\ ty_msPerChar' = 0
       ELSE \E w \in IntnEnds(ty_prof.wpmMax - ty_prof.wpmMin + 1) :
              LET wpm == ty_prof.wpmMin + w
                  cpm == wpm * 5
              IN  IF cpm = 0
                  THEN ty_pc' = "panic" /\ ty_msPerChar' = 0
                  ELSE ty_pc' = "loop" /\ ty_msPerChar' = GoDiv(60000, cpm)
    /\ UNCHANGED <<ty_prof, ty_text, ty_failAt, ty_i, ty_events, ty_last, ty_err>>
    /\ UNCHANGED exceptType

\* one iteration of the loop over the text
TypeTextStep ==
    /\ ty_pc = "loop"
    /\ ty_i < Len(ty_text)
    /\ LET char == ty_text[ty_i + 1] IN
       \E pause \in PrePauseSteps(ty_prof),
          typo \in TypoSteps(ty_prof, ty_i, ty_msPerChar, Len(ty_events)) :
           LET real   == KeyEvent("char", char,
                                  Len(ty_events) + Len(Keys(typo)) + 1)
               before == pause \o typo \o << real >>
           IN  /\ ty_i' = ty_i + 1
               /\ ty_events' = ty_events \o Keys(typo) \o << real >>
               /\ IF Intn(GoDiv(ty_msPerChar, 2)) = {}
                  THEN \* t.rand.Intn(msPerChar/2) panics
                       /\ ty_pc' = "panic"
                       /\ ty_last' = before
                  ELSE /\ ty_pc' = "loop"
                       /\ \E after \in AfterSteps(char, ty_msPerChar) :
                            ty_last' = before \o after
    /\ UNCHANGED <<ty_prof, ty_text, ty_failAt, ty_msPerChar, ty_err>>
    /\ UNCHANGED exceptType

\* the loop is over: return nil
TypeTextReturn ==
    /\ ty_pc = "loop"
    /\ ty_i = Len(ty_text)
    /\ ty_pc' = "done"
    /\ UNCHANGED <<ty_prof, ty_text, ty_failAt, ty_msPerChar, ty_i, ty_events,
                   ty_last, ty_err>>
    /\ UNCHANGED exceptType

TypeNext ==
    \/ ClearAndTypeCall
    \/ TypeTextFocusFail
    \/ TypeTextCall
    \/ TypeTextStep
    \/ TypeTextReturn

----------------------------------------------------------------------------
(* TimingController and the scheduler's waits *)

MillisPerSecond == 1000

\* calls of the duration functions in one run
MaxTimingCalls == 2

\* the TimingController instances a run is checked with: 0 <= min <= max,
\* readingSpeedWPM > 0
TimingConfigs ==
    { [actionDelayMin |-> a[1], actionDelayMax |-> a[2],
       thinkTimeMin |-> th[1], thinkTimeMax |-> th[2],
       readingSpeedWPM |-> r] :
        a \in {<<0, 0>>, <<2, 5>>}, th \in {<<0, 0>>, <<3, 8>>},
        r \in {1, 200} }

\* the word counts handed to ReadingTime
WordCounts == {0, 1, 7, 250}

\* ActionDelay(), in milliseconds
ActionDelay(t) ==
    { (t.actionDelayMin + d) * MillisPerSecond :
        d \in IntnEnds(t.actionDelayMax - t.actionDelayMin + 1) }

\* ThinkTime() of a TimingController, in milliseconds
TimingThinkTime(t) ==
    { (t.thinkTimeMin + d) * MillisPerSecond :
        d \in IntnEnds(t.thinkTimeMax - t.thinkTimeMin + 1) }

\* ReadingTime(wordCount), in milliseconds.  With f the draw of Float64 as a
\* percentage, factor = 1 + (f*2/100 - 1) * 0.2 = (400 + 2f) / 500, and
\* time.Duration(seconds*factor) truncates to whole seconds.
ReadingTime(t, wordCount) ==
    IF wordCount = 0 THEN {0}
    ELSE { GoDiv(wordCount * 60 * (400 + 2 * f), t.readingSpeedWPM * 500)
               * MillisPerSecond : f \in FloatDraws }

\* ShortPause(), MediumPause(), LongPause(), in milliseconds
ShortPause == { 300 + d : d \in IntnEnds(700) }
MediumPause == { 1000 + d : d \in IntnEnds(2000) }
LongPause == { 3000 + d : d \in IntnEnds(5000) }

\* RandomPause(): pauseType := Intn(3) picks one of the three
RandomPause == ShortPause \cup MediumPause \cup LongPause

\* TakeBreak: the duration slept, in milliseconds
TakeBreak(s) ==
    { ms * MillisPerSecond : ms \in BreakSeconds(s) }

\* a variant that sleeps whatever the sign of the duration
WaitUntilAlways(t, targetTime) ==
    LET duration == (targetTime - t) * MillisPerSecond
    IN  [d |-> duration, slept |-> duration, end |-> targetTime]

\* WaitUntil(targetTime) at time t: the duration computed, the time slept
\* and the time at which it returns
WaitUntil(t, targetTime) ==
    LET duration == (targetTime - t) * MillisPerSecond
    IN  IF duration > 0
        THEN [d |-> duration, slept |-> duration, end |-> targetTime]
        ELSE [d |-> duration, slept |-> 0, end |-> t]

NoTimingCall ==
    [n |-> 0, fn |-> "none", d |-> 0, slept |-> 0, at |-> 0, end |-> 0]

\* the schedulers of the timing runs: the break lengths vary
BreakWindows ==
    { [DefaultWindow EXCEPT !.breakDurationMin = b[1],
                            !.breakDurationMax = b[2]] :
        b \in {<<0, 0>>, <<5, 15>>} }

TimingInit ==
    /\ tm_cfg \in TimingConfigs
    /\ tm_call = NoTimingCall
    /\ now \in { Date(1, 8), Date(1, 12) }
    /\ s_cfg \in BreakWindows
    /\ chk = NoCheck /\ w_pc = "idle" /\ w_now = -1 /\ w_next = -1

\* a duration function returns d and the caller sleeps for it
\* (TimingController.Wait, time.Sleep)
Returned(fn, d) ==
    /\ tm_call.n < MaxTimingCalls
    /\ tm_call' = [n |-> tm_call.n + 1, fn |-> fn, d |-> d,
                   slept |-> IF d > 0 THEN d ELSE 0,
                   at |-> now, end |-> now + GoDiv(d, MillisPerSecond)]
    /\ now' = now + GoDiv(d, MillisPerSecond)
    /\ UNCHANGED <<tm_cfg, schedRest>>
    /\ UNCHANGED exceptTiming

ActionDelayCall == \E d \in ActionDelay(tm_cfg) : Returned("ActionDelay", d)

ThinkTimeCall == \E d \in TimingThinkTime(tm_cfg) : Returned("ThinkTime", d)

ReadingTimeCall ==
    \E wordCount \in WordCounts :
        \E d \in ReadingTime(tm_cfg, wordCount) : Returned("ReadingTime", d)

ShortPauseCall == \E d \in ShortPause : Returned("ShortPause", d)

MediumPauseCall == \E d \in MediumPause : Returned("MediumPause", d)

LongPauseCall == \E d \in LongPause : Returned("LongPause", d)

RandomPauseCall == \E d \in RandomPause : Returned("RandomPause", d)

TakeBreakCall == \E d \in TakeBreak(s_cfg) : Returned("TakeBreak", d)

\* WaitUntil(targetTime) for a time in the past, the present or the future
WaitUntilCall ==
    /\ tm_call.n < MaxTimingCalls
    /\ \E targetTime \in { now - SecondsPerHour, now - 1, now, now + 1,
                           now + SecondsPerHour } :
         LET r == WaitUntil(now, targetTime) IN
         /\ tm_call' = [n |-> tm_call.n + 1, fn |-> "WaitUntil", d |-> r.d,
                        slept |-> r.slept, at |-> now, end |-> r.end]
         /\ now' = r.end
    /\ UNCHANGED <<tm_cfg, schedRest>>
    /\ UNCHANGED exceptTiming

TimingNext ==
    \/ ActionDelayCall
    \/ ThinkTimeCall
    \/ ReadingTimeCall
    \/ ShortPauseCall
    \/ MediumPauseCall
    \/ LongPauseCall
    \/ RandomPauseCall
    \/ TakeBreakCall
    \/ WaitUntilCall

----------------------------------------------------------------------------
(* MouseMover.moveToPoint *)

\* Points have integer coordinates here; a computed point is a record
\* [xn, yn, den, rx, ry]: the exact value (xn/den, yn/den) and the rounding
\* error of the float64 evaluation in units of the last place.  The inputs
\* are chosen so that the control points have integer coordinates.

\* the MouseMover instances a run is checked with
MotionProfiles ==
    [bezierPoints : {2, 5}, speedVariation : {0, 100},
     overshootProb : {0, 100}, microCorrectionProb : {0, 100}]

\* start and end of a move: apart, and equal
MoveEnds ==
    { << [x |-> 0, y |-> 0], [x |-> 60, y |-> 120] >>,
      << [x |-> 60, y |-> 60], [x |-> 60, y |-> 60] >> }

\* draws of rand.Float64() for a micro-correction, as percentages
CorrectionDraws == { <<0, 75>>, <<50, 25>>, <<50, 50>> }
\* draws of rand.Float64() for the intermediate control points, one each
ControlDraws(bezierPoints) ==
    { [j \in 1 .. (bezierPoints - 2) |-> 0],
      [j \in 1 .. (bezierPoints - 2) |-> IF j = 2 THEN 0 ELSE 75] }
\* draws of rand.Intn(30) for the number of curve points
NumPointDraws == {0, 3}
\* draws of rand.Float64() for the overshoot: the distance as a percentage
\* and the angle in quarter turns
OvershootDraws == { <<0, 0>>, <<90, 3>> }
\* rounding error of a curve point strictly inside the curve
RoundingDraws == {0, 1}

RECURSIVE Pow(_, _)
\* math.Pow for integer arguments; math.Pow(0, 0) = 1
Pow(b, e) == IF e = 0 THEN 1 ELSE b * Pow(b, e - 1)

RECURSIVE Product(_, _)
\* a * (a+1) * ... * b
Product(a, b) == IF a > b THEN 1 ELSE a * Product(a + 1, b)

\* binomialCoefficient(n, k)
binomialCoefficient(n, k) ==
    IF k > n THEN 0
    ELSE IF k = 0 \/ k = n THEN 1
    ELSE Product(n - k + 1, n) \div Product(1, k)

Exact(p) == [xn |-> p.x, yn |-> p.y, den |-> 1, rx |-> 0, ry |-> 0]

\* a variant whose offset does not shrink with the distance
ControlPointFixed(start, end, bezierPoints, i, f) ==
    LET dx == end.x - start.x
        dy == end.y - start.y
    IN  [x |-> start.x + (dx * i) \div (bezierPoints - 1),
         y |-> start.y + (dy * i) \div (bezierPoints - 1)
                       + ((2 * f - 100) * 60) \div 500]

\* the intermediate control point i (0-based) of generateBezierPath: the
\* linear interpolation plus the offset perpendicular to the line.  With f
\* the draw as a percentage, offset = (2f - 100) * distance / 500 and the
\* unit normal is (-dy, dx) / distance.
ControlPoint(start, end, bezierPoints, i, f) ==
    LET dx == end.x - start.x
        dy == end.y - start.y
    IN  [x |-> start.x + (dx * i) \div (bezierPoints - 1)
                       - ((2 * f - 100) * dy) \div 500,
         y |-> start.y + (dy * i) \div (bezierPoints - 1)
                       + ((2 * f - 100) * dx) \div 500]

\* the control points, given one draw for each intermediate one
ControlPoints(start, end, bezierPoints, draws) ==
    [j \in 1 .. bezierPoints |->
        IF j = bezierPoints THEN end
        ELSE IF j = 1 THEN start
        ELSE ControlPoint(start, end, bezierPoints, j - 1, draws[j - 1])]

RECURSIVE BernsteinSum(_, _, _, _, _)
\* the sum over i = 0..m of C(n,i) * (1-t)^(n-i) * t^i * c[i], scaled by
\* steps^n, for t = k / steps and c the x or the y coordinates
BernsteinSum(c, steps, k, n, m) ==
    IF m < 0 THEN 0
    ELSE binomialCoefficient(n, m) * Pow(steps - k, n - m) * Pow(k, m) * c[m + 1]
         + BernsteinSum(c, steps, k, n, m - 1)

\* a variant that divides the curve into numPoints parts
bezierPointShort(controlPoints, numPoints, k, r) ==
    LET n == Len(controlPoints) - 1
        xs == [j \in DOMAIN controlPoints |-> controlPoints[j].x]
        ys == [j \in DOMAIN controlPoints |-> controlPoints[j].y]
        inner == k > 0 /\ k < numPoints - 1
    IN  [xn |-> BernsteinSum(xs, numPoints, k, n, n),
         yn |-> BernsteinSum(ys, numPoints, k, n, n),
         den |-> Pow(numPoints, n),
         rx |-> IF inner THEN r ELSE 0,
         ry |-> IF inner THEN -r ELSE 0]

\* bezierPoint(controlPoints, t) for t = k / (numPoints - 1); r is the
\* rounding error, which is zero at t = 0 and t = 1 where every term of the
\* sum but one is exactly zero
bezierPoint(controlPoints, numPoints, k, r) ==
    LET n == Len(controlPoints) - 1
        xs == [j \in DOMAIN controlPoints |-> controlPoints[j].x]
        ys == [j \in DOMAIN controlPoints |-> controlPoints[j].y]
        inner == k > 0 /\ k < numPoints - 1
    IN  [xn |-> BernsteinSum(xs, numPoints - 1, k, n, n),
         yn |-> BernsteinSum(ys, numPoints - 1, k, n, n),
         den |-> Pow(numPoints - 1, n),
         rx |-> IF inner THEN r ELSE 0,
         ry |-> IF inner THEN -r ELSE 0]

\* a variant with overshootDistance = 10 + f * 40
generateOvershootFar(target, f, q) ==
    LET overshootDistance == 10 + (f * 40) \div 100
        cos == IF q = 0 THEN 1 ELSE IF q = 2 THEN -1 ELSE 0
        sin == IF q = 1 THEN 1 ELSE IF q = 3 THEN -1 ELSE 0
    IN  << [x |-> target.x + overshootDistance * cos,
            y |-> target.y + overshootDistance * sin], target >>

\* generateOvershoot(target): overshootDistance = 10 + f * 30 at an angle of
\* q quarter turns, then the target
generateOvershoot(target, f, q) ==
    LET overshootDistance == 10 + (f * 30) \div 100
        cos == IF q = 0 THEN 1 ELSE IF q = 2 THEN -1 ELSE 0
        sin == IF q = 1 THEN 1 ELSE IF q = 3 THEN -1 ELSE 0
    IN  << [x |-> target.x + overshootDistance * cos,
            y |-> target.y + overshootDistance * sin], target >>

\* the overshoot tails moveToPoint may append
Tails(prof, end) ==
    { << >> : x \in {1} \cap {IF Misses(prof.overshootProb) THEN 1 ELSE 0} }
    \cup
    { generateOvershoot(end, d[1], d[2]) :
        d \in IF Hits(prof.overshootProb) THEN OvershootDraws ELSE {} }

\* delay in microseconds: baseDelay + int(baseDelay * speedVariation *
\* (f*2 - 1)) ms, with baseDelay = 5 + b
StepDelay(prof, b, f) ==
    LET baseDelay == 5 + b
        variation == GoDiv(baseDelay * prof.speedVariation * (2 * f - 100), 10000)
    IN  (baseDelay + variation) * 1000

\* the step delays moveToPoint may draw
StepDelays(prof) ==
    { StepDelay(prof, b, f) : b \in IntnEnds(10), f \in FloatDraws }

\* point.X + (f*4 - 2), point.Y + (g*4 - 2)
Correction(p, f, g) ==
    [p EXCEPT !.xn = @ + ((4 * f - 200) * p.den) \div 100,
              !.yn = @ + ((4 * g - 200) * p.den) \div 100]

Move(role, p, n) == [kind |-> "move", role |-> role, p |-> p,
                     ok |-> (n # mv_failAt)]

SleepUs(us) == [kind |-> "sleep", us |-> us]

\* the point of the path at index k (0-based): the curve, then the tail
PathPoint(k, r) ==
    IF k < mv_numPoints
    THEN bezierPoint(mv_cps, mv_numPoints, k, r)
    ELSE Exact(mv_tail[k - mv_numPoints + 1])

PathLen == mv_numPoints + Len(mv_tail)

MouseInit ==
    /\ mv_prof \in MotionProfiles
    /\ \E se \in MoveEnds : mv_start = se[1] /\ mv_end = se[2]
    /\ mv_failAt \in {0, 3}
    /\ mv_pc = "idle"
    /\ mv_cps = << >>
    /\ mv_numPoints = 0
    /\ mv_tail = << >>
    /\ mv_i = 0
    /\ mv_n = 0
    /\ mv_last = << >>
    /\ mv_err = "nil"

\* the head of moveToPoint: the path is generated and the tail appended
moveToPointCall ==
    /\ mv_pc = "idle"
    /\ \E draws \in ControlDraws(mv_prof.bezierPoints), np \in NumPointDraws :
         /\ mv_cps' = ControlPoints(mv_start, mv_end, mv_prof.bezierPoints, draws)
         /\ mv_numPoints' = 20 + np
    /\ mv_tail' \in Tails(mv_prof, mv_end)
    /\ mv_pc' = "loop"
    /\ UNCHANGED <<mv_prof, mv_start, mv_end, mv_failAt, mv_i, mv_n, mv_last,
                   mv_err>>
    /\ UNCHANGED exceptMouse

\* page.Mouse.MoveAlong returns an error: moveToPoint returns it
moveToPointFail ==
    /\ mv_pc = "loop"
    /\ mv_i < PathLen
    /\ mv_n + 1 = mv_failAt
    /\ \E r \in RoundingDraws :
         mv_last' = << Move(IF mv_i < mv_numPoints THEN "main" ELSE "tail",
                            PathPoint(mv_i, r), mv_n + 1) >>
    /\ mv_n' = mv_n + 1
    /\ mv_pc' = "done"
    /\ mv_err' = "move"
    /\ UNCHANGED <<mv_prof, mv_start, mv_end, mv_failAt, mv_cps, mv_numPoints,
                   mv_tail, mv_i>>
    /\ UNCHANGED exceptMouse

\* one iteration of the loop over the path
moveToPointStep ==
    /\ mv_pc = "loop"
    /\ mv_i < PathLen
    /\ mv_n + 1 # mv_failAt
    /\ \E delay \in StepDelays(mv_prof), r \in RoundingDraws :
         LET point == PathPoint(mv_i, r)
             real  == Move(IF mv_i < mv_numPoints THEN "main" ELSE "tail",
                           point, mv_n + 1)
         IN  \/ /\ ~(mv_i > 0 /\ mv_i < PathLen - 1)
                   \/ Misses(mv_prof.microCorrectionProb)
                /\ mv_last' = << real, SleepUs(delay) >>
                /\ mv_n' = mv_n + 1
             \/ /\ mv_i > 0 /\ mv_i < PathLen - 1
                /\ Hits(mv_prof.microCorrectionProb)
                /\ \E c \in CorrectionDraws :
                     mv_last' = << real,
                                   Move("correction",
                                        Correction(point, c[1], c[2]), mv_n + 2),
                                   SleepUs(GoDiv(delay, 2)), SleepUs(delay) >>
                /\ mv_n' = mv_n + 2
    /\ mv_i' = mv_i + 1
    /\ UNCHANGED <<mv_prof, mv_start, mv_end, mv_failAt, mv_pc, mv_cps,
                   mv_numPoints, mv_tail, mv_err>>
    /\ UNCHANGED exceptMouse

\* the loop is over: return nil
moveToPointReturn ==
    /\ mv_pc = "loop"
    /\ mv_i = PathLen
    /\ mv_pc' = "done"
    /\ UNCHANGED <<mv_prof, mv_start, mv_end, mv_failAt, mv_cps, mv_numPoints,
                   mv_tail, mv_i, mv_n, mv_last, mv_err>>
    /\ UNCHANGED exceptMouse

MouseNext ==
    \/ moveToPointCall
    \/ moveToPointFail
    \/ moveToPointStep
    \/ moveToPointReturn

----------------------------------------------------------------------------
(* Authenticator.Login (src/unnamed/part_001) *)

\* the poller's loop bound: for i := 0; i < 300; i++
MaxPolls == 300

\* the page calls of Login before it waits, in order
LoginSteps ==
    << "LoadCookies", "Navigate", "WaitLoad", "IsLoggedIn", "NavigateLogin",
       "WaitLoadLogin", "ElementUsername", "TypeEmail", "ElementPassword",
       "TypePassword", "ElementSubmit", "Click" >>

\* the error Login returns when a step fails
StepError(step) == "failed: " \o step

\* a variant that goes on polling after success <- true
PollerAfterSendNoReturn(v) == IF v THEN "check" ELSE "exited"

\* where the poller goes once its result is received: after success <- true
\* it returns, after success <- false the function ends
PollerAfterSend(v) == "exited"

\* a variant that ends after the last round without success <- false
PollerAfterMissSilent(i) == IF i + 1 < MaxPolls THEN "check" ELSE "exited"

\* where the poller goes after a check that found no session: round the
\* loop while i + 1 < 300, then to success <- false
PollerAfterMiss(i) == IF i + 1 < MaxPolls THEN "check" ELSE "send"

\* the receive <-success: the channel is unbuffered, so the caller goes on
\* only when the poller is at its send
CanReceive == lg_ppc = "send"

LoginInit ==
    /\ lg_pc = "idle"
    /\ lg_step = 0
    /\ lg_ppc = "none"
    /\ lg_i = 0
    /\ lg_val = FALSE
    /\ lg_using = {}
    /\ lg_session \in BOOLEAN
    /\ lg_checks = 0
    /\ lg_seen = FALSE
    /\ lg_sent = 0
    /\ lg_err = "nil"

\* Login is called
LoginCall ==
    /\ lg_pc = "idle"
    /\ lg_pc' = "steps"
    /\ lg_step' = 1
    /\ UNCHANGED <<lg_ppc, lg_i, lg_val, lg_using, lg_session, lg_checks,
                   lg_seen, lg_sent, lg_err>>
    /\ UNCHANGED exceptLogin

\* the caller enters a page call
CallerBegin ==
    /\ lg_pc \in {"steps", "verify", "save"}
    /\ "caller" \notin lg_using
    /\ lg_using' = lg_using \cup {"caller"}
    /\ UNCHANGED <<lg_pc, lg_step, lg_ppc, lg_i, lg_val, lg_session, lg_checks,
                   lg_seen, lg_sent, lg_err>>
    /\ UNCHANGED exceptLogin

\* a page call before the wait returns: a failure is returned (that of
\* LoadCookies is only logged), a session found ends Login, and after the
\* click the poller is started and the caller waits on the channel
CallerStepEnd ==
    /\ lg_pc = "steps"
    /\ "caller" \in lg_using
    /\ lg_using' = lg_using \ {"caller"}
    /\ LET step == LoginSteps[lg_step]
           next == /\ lg_err' = "nil"
                   /\ IF lg_step < Len(LoginSteps)
                      THEN /\ lg_pc' = "steps"
                           /\ lg_step' = lg_step + 1
                           /\ UNCHANGED <<lg_ppc, lg_i>>
                      ELSE /\ lg_pc' = "wait"
                           /\ lg_ppc' = "check"
                           /\ lg_i' = 0
                           /\ UNCHANGED lg_step
           stop(err) == /\ lg_pc' = "done"
                        /\ lg_err' = err
                        /\ UNCHANGED <<lg_step, lg_ppc, lg_i>>
       IN  IF step = "LoadCookies" THEN next
           ELSE IF step = "IsLoggedIn"
                THEN IF lg_session THEN stop("nil") ELSE next
                ELSE next \/ stop(StepError(step))
    /\ UNCHANGED <<lg_val, lg_session, lg_checks, lg_seen, lg_sent>>
    /\ UNCHANGED exceptLogin

\* the poller enters a.IsLoggedIn()
PollerCheckBegin ==
    /\ lg_ppc = "check"
    /\ lg_ppc' = "checking"
    /\ lg_using' = lg_using \cup {"poller"}
    /\ UNCHANGED <<lg_pc, lg_step, lg_i, lg_val, lg_session, lg_checks, lg_seen,
                   lg_sent, lg_err>>
    /\ UNCHANGED exceptLogin

\* a.IsLoggedIn() returns in the poller: on true it goes to send true; on
\* false it sleeps a second and loops, and after the last round it goes to
\* send false
PollerCheckEnd ==
    /\ lg_ppc = "checking"
    /\ lg_using' = lg_using \ {"poller"}
    /\ lg_checks' = lg_checks + 1
    /\ lg_seen' = (lg_seen \/ lg_session)
    /\ IF lg_session
       THEN /\ lg_ppc' = "send"
            /\ lg_val' = TRUE
            /\ UNCHANGED lg_i
       ELSE /\ lg_i' = lg_i + 1
            /\ lg_val' = FALSE
            /\ lg_ppc' = PollerAfterMiss(lg_i)
    /\ UNCHANGED <<lg_pc, lg_step, lg_session, lg_sent, lg_err>>
    /\ UNCHANGED exceptLogin

\* the poller's send meets the caller's receive
Receive ==
    /\ lg_pc = "wait"
    /\ CanReceive
    /\ lg_ppc' = PollerAfterSend(lg_val)
    /\ lg_sent' = lg_sent + 1
    /\ IF lg_val
       THEN lg_pc' = "verify" /\ lg_err' = "nil"
       ELSE lg_pc' = "done" /\ lg_err' = "timeout waiting for login"
    /\ UNCHANGED <<lg_step, lg_i, lg_val, lg_using, lg_session, lg_checks,
                   lg_seen>>
    /\ UNCHANGED exceptLogin

\* the caller's own a.IsLoggedIn() after the wait returns
VerifyEnd ==
    /\ lg_pc = "verify"
    /\ "caller" \in lg_using
    /\ lg_using' = lg_using \ {"caller"}
    /\ IF lg_session
       THEN lg_pc' = "save" /\ lg_err' = "nil"
       ELSE lg_pc' = "done" /\ lg_err' = "login failed"
    /\ UNCHANGED <<lg_step, lg_ppc, lg_i, lg_val, lg_session, lg_checks,
                   lg_seen, lg_sent>>
    /\ UNCHANGED exceptLogin

\* SaveCookies returns (its failure is only logged) and Login returns nil
SaveEnd ==
    /\ lg_pc = "save"
    /\ "caller" \in lg_using
    /\ lg_using' = lg_using \ {"caller"}
    /\ lg_pc' = "done"
    /\ UNCHANGED <<lg_step, lg_ppc, lg_i, lg_val, lg_session, lg_checks,
                   lg_seen, lg_sent, lg_err>>
    /\ UNCHANGED exceptLogin

\* the site: the user completes the login in the browser window, or the
\* session is ended
SessionChange ==
    /\ lg_pc \notin {"idle", "done"}
    /\ lg_session' = ~lg_session
    /\ UNCHANGED <<lg_pc, lg_step, lg_ppc, lg_i, lg_val, lg_using, lg_checks,
                   lg_seen, lg_sent, lg_err>>
    /\ UNCHANGED exceptLogin

LoginNext ==
    \/ LoginCall
    \/ CallerBegin
    \/ CallerStepEnd
    \/ PollerCheckBegin
    \/ PollerCheckEnd
    \/ Receive
    \/ VerifyEnd
    \/ SaveEnd
    \/ SessionChange

----------------------------------------------------------------------------
(* Searcher.Search (src/internal/search/search.go) *)

\* result pages the site serves for one search
MaxPages == 3

\* search.max_results of the Searcher
SearchMaxResults == {0, 1, 5, 15}

\* profiles parseSearchResults may find on one result page
PageSizes == {0, 1, 3, 10}

\* search.pagination_delay_min / pagination_delay_max, in seconds
PaginationDelays == { [min |-> 2, max |-> 5], [min |-> 3, max |-> 2] }

SearchInit ==
    /\ sr_max \in SearchMaxResults
    /\ sr_delay \in PaginationDelays
    /\ sr_pc = "idle"
    /\ sr_page = 0
    /\ sr_collected = 0
    /\ sr_all = 0
    /\ sr_stored = 0
    /\ sr_err = "nil"

\* the head of Search: the navigation fails, or the site reports no
\* results, or the pagination loop is entered
SearchCall ==
    /\ sr_pc = "idle"
    /\ \/ sr_pc' = "done" /\ sr_err' = "navigate"
       \/ sr_pc' = "done" /\ sr_err' = "nil"
       \/ sr_pc' = "loop" /\ sr_err' = "nil"
    /\ sr_page' = 1
    /\ UNCHANGED <<sr_max, sr_delay, sr_collected, sr_all, sr_stored>>
    /\ UNCHANGED exceptSearch

\* how goToNextPage ends: no next page (or its click fails), the next page
\* is shown, or page.MustEval of ScrollToBottom or MustScrollIntoView panics
NextPageOutcomes == {"none", "next", "panic"}

\* one iteration of the pagination loop: the page is parsed, each result is
\* stored (a failure is only logged), the page's results are appended, and
\* the loop goes on if fewer than MaxResults are collected and a next page
\* exists; the delay between pages divides by max - min + 1
SearchPage ==
    /\ sr_pc = "loop"
    /\ sr_collected < sr_max
    /\ \E results \in PageSizes, parseOk \in BOOLEAN,
          next \in NextPageOutcomes :
         IF ~parseOk \/ results = 0
         THEN /\ sr_pc' = "done"
              /\ UNCHANGED <<sr_page, sr_collected, sr_all, sr_stored>>
         ELSE /\ \E saved \in 0 .. results : sr_stored' = sr_stored + saved
              /\ sr_all' = sr_all + results
              /\ sr_collected' = sr_collected + results
              /\ IF sr_collected + results >= sr_max
                 THEN sr_pc' = "done" /\ sr_page' = sr_page
                 ELSE IF next = "panic"
                 THEN sr_pc' = "panic" /\ sr_page' = sr_page
                 ELSE IF next = "none" \/ sr_page = MaxPages
                 THEN sr_pc' = "done" /\ sr_page' = sr_page
                 ELSE IF sr_delay.max - sr_delay.min + 1 = 0
                 THEN sr_pc' = "panic" /\ sr_page' = sr_page + 1
                 ELSE sr_pc' = "loop" /\ sr_page' = sr_page + 1
    /\ UNCHANGED <<sr_max, sr_delay, sr_err>>
    /\ UNCHANGED exceptSearch

\* the loop guard resultsCollected < MaxResults is false
SearchLoopEnd ==
    /\ sr_pc = "loop"
    /\ ~(sr_collected < sr_max)
    /\ sr_pc' = "done"
    /\ UNCHANGED <<sr_max, sr_delay, sr_page, sr_collected, sr_all, sr_stored,
                   sr_err>>
    /\ UNCHANGED exceptSearch

SearchNext ==
    \/ SearchCall
    \/ SearchPage
    \/ SearchLoopEnd

----------------------------------------------------------------------------
(* ConnectionManager.generateNote (src/internal/connections/connections.go) *)

\* strings are sequences of characters; a template is a sequence of
\* characters and of the placeholders {{firstName}}, {{jobTitle}}, {{company}}
NoteTemplates ==
    { << >>,
      << << "H", "i", " ", "{{firstName}}" >> >>,
      << << "H", "i" >>,
         << "{{firstName}}", ",", " ", "{{jobTitle}}", "@", "{{company}}" >> >> }

ProfileNames == { << "A", "n", "a", " ", "L", "i" >>, << "B", "o" >>, << >> }
JobTitles    == { << "C", "T", "O" >>, << >> }
Companies    == { << "A", "c", "m", "e" >>, << "X" >> }

\* connections.note_character_limit
NoteCharacterLimits == {0, 1, 2, 3, 4, 10, 300}

RECURSIVE FirstName(_)
\* strings.Split(profileName, " ")[0]
FirstName(profileName) ==
    IF profileName = << >> \/ Head(profileName) = " " THEN << >>
    ELSE << Head(profileName) >> \o FirstName(Tail(profileName))

RECURSIVE ReplaceAll(_, _, _, _)
\* the three strings.ReplaceAll calls on the template
ReplaceAll(template, firstName, jobTitle, company) ==
    IF template = << >> THEN << >>
    ELSE (CASE Head(template) = "{{firstName}}" -> firstName
            [] Head(template) = "{{jobTitle}}"  -> jobTitle
            [] Head(template) = "{{company}}"   -> company
            [] OTHER -> << Head(template) >>)
         \o ReplaceAll(Tail(template), firstName, jobTitle, company)

\* note[:limit-3] + "..." when len(note) > limit; the slice expression
\* panics when limit - 3 is negative
Truncate(note, limit) ==
    IF Len(note) > limit
    THEN IF limit - 3 < 0
         THEN [panic |-> TRUE, note |-> << >>]
         ELSE [panic |-> FALSE,
               note |-> SubSeq(note, 1, limit - 3) \o << ".", ".", "." >>]
    ELSE [panic |-> FALSE, note |-> note]

\* generateNote with template number k of the configured ones
generateNote(templates, k, profileName, jobTitle, company, limit) ==
    IF Len(templates) = 0 THEN [panic |-> FALSE, note |-> << >>]
    ELSE Truncate(ReplaceAll(templates[k + 1], FirstName(profileName),
                             jobTitle, company), limit)

NoteInit ==
    /\ nt_in \in [templates : NoteTemplates, profileName : ProfileNames,
                  jobTitle : JobTitles, company : Companies,
                  limit : NoteCharacterLimits]
    /\ nt_pc = "idle"
    /\ nt_full = << >>
    /\ nt_note = << >>

\* generateNote returns a note
generateNoteCall ==
    /\ nt_pc = "idle"
    /\ \E k \in IF Len(nt_in.templates) = 0 THEN {0}
                ELSE Intn(Len(nt_in.templates)) :
         LET r == generateNote(nt_in.templates, k, nt_in.profileName,
                               nt_in.jobTitle, nt_in.company, nt_in.limit)
         IN  /\ ~r.panic
             /\ nt_note' = r.note
             /\ nt_full' = IF Len(nt_in.templates) = 0 THEN << >>
                           ELSE ReplaceAll(nt_in.templates[k + 1],
                                           FirstName(nt_in.profileName),
                                           nt_in.jobTitle, nt_in.company)
    /\ nt_pc' = "done"
    /\ UNCHANGED nt_in
    /\ UNCHANGED exceptNote

\* generateNote aborts: slice bounds out of range
generateNotePanic ==
    /\ nt_pc = "idle"
    /\ \E k \in IF Len(nt_in.templates) = 0 THEN {0}
                ELSE Intn(Len(nt_in.templates)) :
         /\ generateNote(nt_in.templates, k, nt_in.profileName,
                         nt_in.jobTitle, nt_in.company, nt_in.limit).panic
         /\ nt_full' = ReplaceAll(nt_in.templates[k + 1],
                                  FirstName(nt_in.profileName),
                                  nt_in.jobTitle, nt_in.company)
    /\ nt_pc' = "panic"
    /\ UNCHANGED <<nt_in, nt_note>>
    /\ UNCHANGED exceptNote

NoteNext ==
    \/ generateNoteCall
    \/ generateNotePanic

----------------------------------------------------------------------------
(* Specifications *)

\* a component that takes no part in a specification rests in these states
ScrollOff ==
    /\ sc_prof = [speedMin |-> 50, speedMax |-> 51, scrollBackProbability |-> 0,
                  pauseProbability |-> 0]
    /\ sc_pc = "idle" /\ sc_dir = "none" /\ sc_distance = 0 /\ sc_chunks = 0
    /\ sc_chunkSize = 0 /\ sc_i = 0 /\ sc_sum = 0 /\ sc_last = << >>
    /\ sc_err = "nil"

SchedOff ==
    /\ now = 0
    /\ s_cfg = DefaultWindow
    /\ chk = NoCheck /\ w_pc = "idle" /\ w_now = -1 /\ w_next = -1

CtorOff == CtorInit

ConnOff ==
    /\ c_cfg = [DailyLimit |-> 1, HourlyLimit |-> 1,
                CooldownBetweenRequestsMin |-> 30,
                CooldownBetweenRequestsMax |-> 60]
    /\ db_requests = {} /\ db_results = << >> /\ sent = << >>
    /\ c_ret = NoReturn

MainOff == MainInit

TypeOff ==
    /\ ty_prof = [wpmMin |-> 60, wpmMax |-> 60, typoProbability |-> 0,
                  pauseProbability |-> 0]
    /\ ty_text = << >> /\ ty_failAt = 0 /\ ty_pc = "idle" /\ ty_msPerChar = 0
    /\ ty_i = 0 /\ ty_events = << >> /\ ty_last = << >> /\ ty_err = "nil"

TimingOff ==
    /\ tm_cfg = [actionDelayMin |-> 2, actionDelayMax |-> 5, thinkTimeMin |-> 3,
                 thinkTimeMax |-> 8, readingSpeedWPM |-> 200]
    /\ tm_call = NoTimingCall

MouseOff ==
    /\ mv_prof = [bezierPoints |-> 5, speedVariation |-> 0, overshootProb |-> 0,
                  microCorrectionProb |-> 0]
    /\ mv_start = [x |-> 0, y |-> 0] /\ mv_end = [x |-> 0, y |-> 0]
    /\ mv_failAt = 0 /\ mv_pc = "idle" /\ mv_cps = << >> /\ mv_numPoints = 0
    /\ mv_tail = << >> /\ mv_i = 0 /\ mv_n = 0 /\ mv_last = << >>
    /\ mv_err = "nil"

LoginOff ==
    /\ lg_pc = "idle" /\ lg_step = 0 /\ lg_ppc = "none" /\ lg_i = 0
    /\ lg_val = FALSE /\ lg_using = {} /\ lg_session = FALSE /\ lg_checks = 0
    /\ lg_seen = FALSE /\ lg_sent = 0 /\ lg_err = "nil"

SearchOff ==
    /\ sr_max = 0 /\ sr_delay = [min |-> 0, max |-> 0]
    /\ sr_pc = "idle" /\ sr_page = 0 /\ sr_collected = 0
    /\ sr_all = 0 /\ sr_stored = 0 /\ sr_err = "nil"

NoteOff ==
    /\ nt_in = [templates |-> << >>, profileName |-> << >>, jobTitle |-> << >>,
                company |-> << >>, limit |-> 0]
    /\ nt_pc = "idle" /\ nt_full = << >> /\ nt_note = << >>

\* the engines outside a specification of the earlier components
ExtraOff ==
    TypeOff /\ TimingOff /\ MouseOff /\ LoginOff /\ SearchOff /\ NoteOff

\* the scroller driven by its callers
SpecScrollInit ==
    ScrollInit /\ SchedOff /\ CtorOff /\ ConnOff /\ MainOff /\ ExtraOff
SpecScroll == SpecScrollInit /\ [][ScrollNext]_vars

\* the scheduler with a clock that advances by each sleep
SpecSchedInit ==
    SchedInit /\ ScrollOff /\ CtorOff /\ ConnOff /\ MainOff /\ ExtraOff
SpecSched == SpecSchedInit /\ [][SchedNext]_vars

\* the same with the calling goroutine running: the loop guard is evaluated
\* again after each sleep
SpecSchedFair ==
    /\ SpecSched
    /\ WF_vars(WaitForBusinessHoursIter)
    /\ WF_vars(WaitForBusinessHoursReturn)

\* the constructors called with valid and invalid arguments
SpecCtorInit ==
    CtorInit /\ ScrollOff /\ SchedOff /\ ConnOff /\ MainOff /\ ExtraOff
SpecCtor == SpecCtorInit /\ [][CtorNext]_vars

\* the connection manager called for any profile at any time
ConnStartTimes == { Date(1, 8), Date(1, 23) + 59 * SecondsPerMinute }
SpecConnInit ==
    /\ now \in ConnStartTimes
    /\ s_cfg = DefaultWindow
    /\ chk = NoCheck /\ w_pc = "idle" /\ w_now = -1 /\ w_next = -1
    /\ ConnInit /\ ScrollOff /\ CtorOff /\ MainOff /\ ExtraOff
SpecConn == SpecConnInit /\ [][ConnNext]_vars

\* one run of main
MainStartTimes ==
    { Date(1, 8), Date(1, 9), Date(1, 16) + 59 * SecondsPerMinute,
      Date(5, 18), Date(6, 10) }
MainWindows ==
    { [DefaultWindow EXCEPT !.weekendActivity = we] : we \in BOOLEAN }
SpecMainInit ==
    /\ now \in MainStartTimes
    /\ s_cfg \in MainWindows
    /\ chk = NoCheck /\ w_pc = "idle" /\ w_now = -1 /\ w_next = -1
    /\ ConnInit /\ MainInit /\ ScrollOff /\ CtorOff /\ ExtraOff
SpecMain == SpecMainInit /\ [][MainNext]_vars

\* the typer typing one text
SpecTypeInit ==
    /\ TypeInit /\ ScrollOff /\ SchedOff /\ CtorOff /\ ConnOff /\ MainOff
    /\ TimingOff /\ MouseOff /\ LoginOff /\ SearchOff /\ NoteOff

\* the duration functions and the scheduler's waits, called in any order
SpecTimingInit ==
    /\ TimingInit /\ ScrollOff /\ CtorOff /\ ConnOff /\ MainOff /\ TypeOff
    /\ MouseOff /\ LoginOff /\ SearchOff /\ NoteOff
SpecTiming == SpecTimingInit /\ [][TimingNext]_vars

\* the mouse mover making one move
SpecMouseInit ==
    /\ MouseInit /\ ScrollOff /\ SchedOff /\ CtorOff /\ ConnOff /\ MainOff
    /\ TypeOff /\ TimingOff /\ LoginOff /\ SearchOff /\ NoteOff
SpecMouse == SpecMouseInit /\ [][MouseNext]_vars

\* one call of Login, its poller and the site
SpecLoginInit ==
    /\ LoginInit /\ ScrollOff /\ SchedOff /\ CtorOff /\ ConnOff /\ MainOff
    /\ TypeOff /\ TimingOff /\ MouseOff /\ SearchOff /\ NoteOff
SpecLogin == SpecLoginInit /\ [][LoginNext]_vars

\* the same with the poller goroutine scheduled: a page query that was
\* entered returns, the one-second sleep ends, and a send that meets the
\* waiting receive completes
SpecLoginFair ==
    /\ SpecLogin
    /\ WF_vars(PollerCheckBegin)
    /\ WF_vars(PollerCheckEnd)
    /\ WF_vars(Receive)

\* one call of Search against a site serving result pages of any size
SpecSearchInit ==
    /\ SearchInit /\ ScrollOff /\ SchedOff /\ CtorOff /\ ConnOff /\ MainOff
    /\ TypeOff /\ TimingOff /\ MouseOff /\ LoginOff /\ NoteOff
SpecSearch == SpecSearchInit /\ [][SearchNext]_vars

\* generateNote called once with any configuration and profile
SpecNoteInit ==
    /\ NoteInit /\ ScrollOff /\ SchedOff /\ CtorOff /\ ConnOff /\ MainOff
    /\ TypeOff /\ TimingOff /\ MouseOff /\ LoginOff /\ SearchOff
SpecNote == SpecNoteInit /\ [][NoteNext]_vars
SpecType == SpecTypeInit /\ [][TypeNext]_vars

----------------------------------------------------------------------------
(* Properties.  The window, the permitted days and the valid profiles are *)
(* stated here as the specification words them, not taken from the code.  *)

Weekdays == Monday .. Friday

\* a day on which activity is allowed
Permitted(s, t) == Weekday(t) \in Weekdays \/ s.weekendActivity

\* the window of the specification
InWindow(s, t) ==
    /\ Hour(t) >= s.businessHoursStart
    /\ Hour(t) < s.businessHoursEnd
    /\ Permitted(s, t)

\* the first permitted day after day d
FollowingPermittedDay(s, d) ==
    CHOOSE e \in (d + 1) .. (d + 7) :
        /\ Permitted(s, Date(e, 0))
        /\ \A f \in (d + 1) .. (e - 1) : ~Permitted(s, Date(f, 0))

\* the distance a scroll was asked to cover, signed as its deltas are
RequestedDelta == IF sc_dir = "up" THEN -sc_distance ELSE sc_distance

\* C1: when a scroll has run to its end, the sum of its forward chunk deltas
\* differs from the requested distance by at most chunkCount units.
C1_ForwardSumWithinChunkCount ==
    (sc_pc = "done" /\ sc_err = "nil" /\ sc_dir # "none")
        => Abs(sc_sum - RequestedDelta) <= sc_chunks

\* C2: no scroll aborts, whatever the distance (0 and distances below twice
\* the chunk count included).
C2_ScrollNeverAborts == sc_pc # "panic"

\* a profile as the data model of the specification allows it
IsProbability(p) == p >= 0 /\ p <= 100
ValidProfile(e) ==
    CASE e.kind = "mouse" ->
            /\ e.bezierPoints >= 2
            /\ IsProbability(e.speedVariation)
            /\ IsProbability(e.overshootProb)
            /\ IsProbability(e.microCorrectionProb)
      [] e.kind = "typer" ->
            /\ e.wpmMin > 0 /\ e.wpmMin <= e.wpmMax
            /\ IsProbability(e.typoProbability)
            /\ IsProbability(e.pauseProbability)
      [] e.kind = "scroller" ->
            /\ e.speedMin >= 0 /\ e.speedMin <= e.speedMax
            /\ IsProbability(e.scrollBackProbability)
            /\ IsProbability(e.pauseProbability)
      [] e.kind = "scheduler" ->
            /\ e.businessHoursStart < e.businessHoursEnd
            /\ e.breakDurationMin <= e.breakDurationMax
            /\ IsProbability(e.breakProbability)
            /\ e.timezone \in {"UTC", "America/New_York"}
      [] OTHER -> TRUE

\* C3: no engine instance with an invalid profile ever exists: a constructor
\* given an invalid field returns a configuration error and no instance.
C3_NoInvalidEngine == ValidProfile(eng)

\* C4: the window check is true iff the local hour is in [start, end) and the
\* day is Monday..Friday or weekendActivity is set; on a weekday it is true at
\* hour start and at hour end - 1 and false at hour end.
C4_WindowCheck ==
    chk.at >= 0 =>
        /\ chk.result <=> InWindow(s_cfg, chk.at)
        /\ (Weekday(chk.at) \in Weekdays /\ Hour(chk.at) = s_cfg.businessHoursStart)
              => chk.result
        /\ (Weekday(chk.at) \in Weekdays /\ Hour(chk.at) = s_cfg.businessHoursEnd - 1)
              => chk.result
        /\ (Weekday(chk.at) \in Weekdays /\ Hour(chk.at) = s_cfg.businessHoursEnd)
              => ~chk.result

\* the check ran on a weekday in the last hour of the window and was true
C4_Witness ==
    /\ chk.at >= 0
    /\ Weekday(chk.at) \in Weekdays
    /\ Hour(chk.at) = s_cfg.businessHoursEnd - 1
    /\ chk.result

\* C5: outside the window and before the start hour of a permitted day, the
\* next window start is that same day at the start hour.
C5_SameDayStart ==
    (/\ w_now >= 0
     /\ ~InWindow(s_cfg, w_now)
     /\ Permitted(s_cfg, w_now)
     /\ Hour(w_now) < s_cfg.businessHoursStart)
        => w_next = Date(DayOf(w_now), s_cfg.businessHoursStart)

\* C6: outside the window and not before the start hour of a permitted day,
\* the next window start is the start hour of the following permitted day,
\* and with weekendActivity false it is never a Saturday or a Sunday.
C6_FollowingPermittedDayStart ==
    (/\ w_now >= 0
     /\ ~InWindow(s_cfg, w_now)
     /\ ~(Permitted(s_cfg, w_now) /\ Hour(w_now) < s_cfg.businessHoursStart))
        => /\ w_next = Date(FollowingPermittedDay(s_cfg, DayOf(w_now)),
                            s_cfg.businessHoursStart)
           /\ ~s_cfg.weekendActivity => Weekday(w_next) \in Weekdays

\* C7: with weekendActivity false, at any time of a Saturday or a Sunday the
\* window check is false and the next window start is the following Monday
\* at businessHoursStart.
C7_WeekendToMonday ==
    ~s_cfg.weekendActivity =>
        /\ (chk.at >= 0 /\ Weekday(chk.at) \in {Saturday, Sunday}) => ~chk.result
        /\ (w_now >= 0 /\ Weekday(w_now) \in {Saturday, Sunday}) =>
              /\ Weekday(w_next) = Monday
              /\ DayOf(w_next) - DayOf(w_now) \in 1 .. 2
              /\ w_next = Date(DayOf(w_next), s_cfg.businessHoursStart)

\* the wait loop ran on a Saturday, inside the hours of the window, with
\* weekendActivity false, and computed a Monday
C7_Witness ==
    /\ ~s_cfg.weekendActivity
    /\ w_now >= 0
    /\ Weekday(w_now) = Saturday
    /\ Hour(w_now) >= s_cfg.businessHoursStart
    /\ Hour(w_now) < s_cfg.businessHoursEnd
    /\ Weekday(w_next) = Monday
    /\ chk.at = w_now /\ ~chk.result

\* requests recorded before the run, and requests delivered on day d
LegacyCount == Cardinality({ r \in db_requests :
                             \E i \in DOMAIN LegacySeq : r.url = LegacySeq[i] })
SentOn(d) == Cardinality({ i \in DOMAIN sent : DayOf(sent[i].at) = d })
RunDays == { DayOf(sent[i].at) : i \in DOMAIN sent }
LegacyDay == { DayOf(r.sentAt) : r \in { q \in db_requests :
                 \E i \in DOMAIN LegacySeq : q.url = LegacySeq[i] } }

\* C8: on a day that started with at most DailyLimit requests, the requests
\* sent that day never exceed DailyLimit, and a call made at the limit
\* returns its error without touching the page.
C8_DailyLimitHolds ==
    LegacyCount <= c_cfg.DailyLimit =>
        /\ \A d \in RunDays :
              SentOn(d) + (IF d \in LegacyDay THEN LegacyCount ELSE 0)
                  <= c_cfg.DailyLimit
        /\ c_ret.err = "limit" => ~c_ret.touched

\* every request delivered so far is in connection_requests
AllRecorded ==
    \A i \in DOMAIN sent :
        \E r \in db_requests : r.url = sent[i].url /\ r.sentAt = sent[i].at

\* C9: the requests sent within any one hour never exceed HourlyLimit
\* (stated for the runs in which every request sent is also recorded, so
\* that a violation does not rest on a failed write).
C9_HourlyLimitHolds ==
    AllRecorded =>
        \A i \in DOMAIN sent :
            Cardinality({ j \in DOMAIN sent :
                            /\ sent[j].at >= sent[i].at
                            /\ sent[j].at < sent[i].at + SecondsPerHour })
                <= c_cfg.HourlyLimit

\* C11: no profile URL is sent a connection request more than once, and a
\* call for a profile that was already sent one returns success without
\* navigating, clicking or recording anything.
C11_NoDuplicateRequests ==
    /\ \A i, j \in DOMAIN sent : i # j => sent[i].url # sent[j].url
    /\ c_ret.dup => (c_ret.err = "nil" /\ ~c_ret.touched)

\* C10: every login, search and connection request of a run is issued at a
\* time inside the business-hours window.
C10_OnlyDuringBusinessHours ==
    m_ops.kind # "none" => InWindow(s_cfg, m_ops.at)

\* the real-character key events issued so far, and their values
IsRealChar(e) == e.kind = "char"
\* the key events of TypeText's loop (ClearAndType's own keys left out)
IsTyped(e) == e.kind \in {"typo", "backspace", "char"}
TypedEvents == SelectSeq(ty_events, IsTyped)
RealChars == SelectSeq(ty_events, IsRealChar)
RealText == [k \in DOMAIN RealChars |-> RealChars[k].value]

\* C12: typing issues one real-character key event per character of the
\* text, in text order (all of them once the call has ended); every typo key
\* is directly followed by a backspace and then by the real character; and
\* no typo is issued before the first character.
C12_OneCharEventPerCharacter ==
    /\ ty_pc \in {"loop", "done", "panic"} =>
            RealText = SubSeq(ty_text, 1, ty_i)
    /\ (ty_pc \in {"done", "panic"} /\ ty_err = "nil") => RealText = ty_text
    /\ \A k \in DOMAIN ty_events :
          /\ ty_events[k].kind = "typo" =>
                /\ k + 2 <= Len(ty_events)
                /\ ty_events[k + 1].kind = "backspace"
                /\ ty_events[k + 2].kind = "char"
          /\ ty_events[k].kind = "backspace" =>
                (k > 1 /\ ty_events[k - 1].kind = "typo")
    /\ TypedEvents # << >> => TypedEvents[1].kind = "char"

\* the same property at the speeds that leave 2 ms per character or more
\* (wpm <= 6000), where t.rand.Intn(msPerChar/2) does not panic
OneCharEventPerCharacterUpTo6000Wpm ==
    ty_msPerChar >= 2 => C12_OneCharEventPerCharacter

\* the pre-pauses of the latest iteration
PrePauses ==
    { ty_last[k].ms : k \in { j \in DOMAIN ty_last :
                                ty_last[j].kind = "sleep"
                                /\ ty_last[j].role = "prepause" } }

\* C13 as stated: every extra pre-pause before a character lasts between
\* 200 and 500 ms, whatever the typing speed.
C13_PrePauseWithin500 == \A ms \in PrePauses : ms >= 200 /\ ms <= 500

\* C13, amended: every extra pre-pause before a character lasts between 200
\* and 699 ms (200 + Intn(500)), whatever the typing speed.
C13_PrePauseWithin699 == \A ms \in PrePauses : ms >= 200 /\ ms <= 699

\* a character was typed after the longest pre-pause, at the highest speed
C13_Witness ==
    /\ 699 \in PrePauses
    /\ ty_msPerChar = 2
    /\ ty_i >= 1

\* C14: no operation sleeps for a negative time: every duration returned by
\* the timing and scheduling functions is >= 0 for a valid configuration, and
\* waiting until a timestamp that is not in the future sleeps for zero time.
C14_NoNegativeSleep ==
    tm_call.fn # "none" =>
        /\ tm_call.slept >= 0
        /\ tm_call.end >= tm_call.at
        /\ tm_call.fn # "WaitUntil" => tm_call.d >= 0
        /\ (tm_call.fn = "WaitUntil" /\ tm_call.d <= 0) =>
              (tm_call.slept = 0 /\ tm_call.end = tm_call.at)

\* WaitUntil was called with a timestamp in the past and returned at once
C14_Witness ==
    /\ tm_call.fn = "WaitUntil"
    /\ tm_call.d < 0
    /\ tm_call.slept = 0
    /\ now = tm_call.at

\* a computed point is exactly the point q
IsAt(p, q) ==
    /\ p.xn = q.x * p.den /\ p.yn = q.y * p.den
    /\ p.rx = 0 /\ p.ry = 0

\* C15: with bezierPoints >= 2 the first point of the main curve equals start
\* and the last point of the main curve equals end.
C15_CurveEndsAtStartAndEnd ==
    (mv_pc # "idle" /\ mv_prof.bezierPoints >= 2) =>
        /\ \A r \in RoundingDraws :
              /\ IsAt(bezierPoint(mv_cps, mv_numPoints, 0, r), mv_start)
              /\ IsAt(bezierPoint(mv_cps, mv_numPoints, mv_numPoints - 1, r),
                      mv_end)
        /\ \A j \in DOMAIN mv_last :
              (mv_last[j].kind = "move" /\ mv_last[j].role = "main") =>
                  /\ mv_i = 1 => IsAt(mv_last[j].p, mv_start)
                  /\ mv_i = mv_numPoints => IsAt(mv_last[j].p, mv_end)

\* the last point of a curve with displaced control points was issued
C15_Witness ==
    /\ mv_pc # "idle"
    /\ mv_i = mv_numPoints
    /\ mv_prof.bezierPoints = 5
    /\ mv_start # mv_end
    /\ mv_cps[2].x # mv_start.x + (mv_end.x - mv_start.x) \div 4
    /\ \E j \in DOMAIN mv_last :
          mv_last[j].kind = "move" /\ mv_last[j].role = "main"

\* the square of the distance between two points
Dist2(p, q) == (p.x - q.x) * (p.x - q.x) + (p.y - q.y) * (p.y - q.y)

\* the pointer moves of the latest iteration that are path points
PathMoves ==
    { mv_last[j].p : j \in { k \in DOMAIN mv_last :
                               /\ mv_last[k].kind = "move"
                               /\ mv_last[k].role # "correction" } }

\* C16: with overshootProbability = 1 the path ends with exactly two extra
\* points after the main curve, a point at a distance in [10,40] from end and
\* then end; with overshootProbability = 0 nothing is appended and the last
\* point of the path is end.
C16_OvershootTail ==
    (mv_pc # "idle") =>
        /\ mv_prof.overshootProb = 100 =>
              /\ Len(mv_tail) = 2
              /\ Dist2(mv_tail[1], mv_end) >= 10 * 10
              /\ Dist2(mv_tail[1], mv_end) <= 40 * 40
              /\ mv_tail[2] = mv_end
              /\ mv_i = mv_numPoints + 1 =>
                    \A p \in PathMoves : p = Exact(mv_tail[1])
        /\ mv_prof.overshootProb = 0 => mv_tail = << >>
        /\ (mv_i = PathLen /\ mv_prof.overshootProb \in {0, 100}) =>
              \A p \in PathMoves : IsAt(p, mv_end)

\* a move with an overshoot of 37 units has come back to the end
C16_Witness ==
    /\ mv_prof.overshootProb = 100
    /\ mv_pc = "done" /\ mv_err = "nil"
    /\ Dist2(mv_tail[1], mv_end) = 37 * 37
    /\ \E j \in DOMAIN mv_last :
          /\ mv_last[j].kind = "move" /\ mv_last[j].role = "tail"
          /\ IsAt(mv_last[j].p, mv_end)

\* C17: for start = end and every profile, every point the pointer move emits
\* equals start, and every step delay is at least zero.
C17_DegenerateMoveStaysAtStart ==
    (mv_start = mv_end) =>
        \A j \in DOMAIN mv_last :
            /\ mv_last[j].kind = "move" => IsAt(mv_last[j].p, mv_start)
            /\ mv_last[j].kind = "sleep" => mv_last[j].us >= 0

\* C17, amended: for start = end the control points all equal start and the
\* points of the main curve equal start, the first and the last exactly and
\* those between them up to the rounding of the evaluation; an overshoot
\* tail, when drawn, is a point 10 to 40 units from start followed by start
\* itself; a micro-correction lies within 2 units of the point it follows
\* in each coordinate; and every step delay is at least zero.
C17_DegenerateCurveCollapses ==
    (mv_start = mv_end /\ mv_pc # "idle") =>
        /\ \A j \in DOMAIN mv_cps : mv_cps[j] = mv_start
        /\ \A r \in RoundingDraws :
              /\ IsAt(bezierPoint(mv_cps, mv_numPoints, 0, r), mv_start)
              /\ IsAt(bezierPoint(mv_cps, mv_numPoints, mv_numPoints - 1, r),
                      mv_start)
        /\ mv_tail # << >> =>
              /\ Len(mv_tail) = 2
              /\ Dist2(mv_tail[1], mv_start) >= 10 * 10
              /\ Dist2(mv_tail[1], mv_start) <= 40 * 40
              /\ mv_tail[2] = mv_start
        /\ \A j \in DOMAIN mv_last :
              /\ (mv_last[j].kind = "move" /\ mv_last[j].role = "main") =>
                    /\ mv_last[j].p.xn = mv_start.x * mv_last[j].p.den
                    /\ mv_last[j].p.yn = mv_start.y * mv_last[j].p.den
              /\ (mv_last[j].kind = "move" /\ mv_last[j].role = "tail") =>
                    /\ \/ mv_last[j].p = Exact(mv_tail[1])
                       \/ IsAt(mv_last[j].p, mv_start)
                    /\ mv_i = PathLen => IsAt(mv_last[j].p, mv_start)
              /\ (mv_last[j].kind = "move" /\ mv_last[j].role = "correction") =>
                    /\ j > 1 /\ mv_last[j - 1].kind = "move"
                    /\ mv_last[j - 1].role # "correction"
                    /\ Abs(mv_last[j].p.xn - mv_last[j - 1].p.xn)
                          <= 2 * mv_last[j].p.den
                    /\ Abs(mv_last[j].p.yn - mv_last[j - 1].p.yn)
                          <= 2 * mv_last[j].p.den
              /\ mv_last[j].kind = "sleep" => mv_last[j].us >= 0

\* a degenerate five-point curve with an overshoot tail has issued a rounded
\* interior point, a micro-correction that coincides with it, and slept for
\* a delay of zero
C17_Witness ==
    /\ mv_start = mv_end
    /\ mv_prof.bezierPoints = 5 /\ mv_prof.speedVariation = 100
    /\ mv_tail # << >>
    /\ mv_i > 1 /\ mv_i < mv_numPoints
    /\ \E j \in DOMAIN mv_last :
          /\ mv_last[j].kind = "move" /\ mv_last[j].role = "main"
          /\ mv_last[j].p.rx # 0
          /\ j + 1 \in DOMAIN mv_last
          /\ mv_last[j + 1].kind = "move"
          /\ mv_last[j + 1].role = "correction"
          /\ mv_last[j + 1].p = mv_last[j].p
    /\ \E j \in DOMAIN mv_last :
          mv_last[j].kind = "sleep" /\ mv_last[j].us = 0

\* an overshoot tail of a degenerate move has come back to start
DegenerateTailReturns ==
    /\ mv_start = mv_end /\ mv_tail # << >>
    /\ mv_pc = "done" /\ mv_err = "nil"
    /\ \E j \in DOMAIN mv_last :
          /\ mv_last[j].kind = "move" /\ mv_last[j].role = "tail"
          /\ IsAt(mv_last[j].p, mv_start)

\* C18: motion, typing and scroll generation are deterministic in the random
\* draws and the random source can be fixed by the caller: two engines
\* constructed with the same arguments have the same random source, hence the
\* same draws.
C18_RandomSourceFixedByCaller ==
    (eng_prev.same /\ eng.kind \in {"mouse", "typer", "scroller"}) =>
        eng_seed = eng_prev.seed

\* C19: when a remote action fails in the middle of an execution (here a key
\* event of TypeText: a typo, a backspace or a real character), the execution
\* stops at that step: the failed event is the last one issued and the call
\* returns the failure.
C19_FailureStopsExecution ==
    \A j \in DOMAIN ty_events :
        ~ty_events[j].ok =>
            /\ j = Len(ty_events)
            /\ ty_pc = "done" => ty_err # "nil"

\* the same for a pointer move: once the page has rejected a move, none
\* follows and moveToPoint returns the failure
FailedMoveStopsMove ==
    (mv_failAt # 0 /\ mv_n >= mv_failAt) =>
        /\ mv_n = mv_failAt
        /\ mv_pc = "done" /\ mv_err # "nil"

\* C20: the poller and the calling flow never are inside a call on the page
\* at the same time, and once the poller runs the caller uses the page again
\* only after the poller has made its last page query and delivered its
\* result.
C20_PageUsedByOneAtATime ==
    /\ Cardinality(lg_using) <= 1
    /\ ("caller" \in lg_using /\ lg_ppc # "none") =>
          /\ lg_ppc = "exited"
          /\ lg_sent = 1

\* the caller checks the session itself after the poller, on its third
\* check, has delivered true
C20_Witness ==
    /\ lg_pc = "verify"
    /\ "caller" \in lg_using
    /\ lg_ppc = "exited"
    /\ lg_checks = 3

\* the latest iteration issued a micro-correction
HasCorrection ==
    \E j \in DOMAIN mv_last :
        mv_last[j].kind = "move" /\ mv_last[j].role = "correction"

\* C21: a micro-correction is inserted only at interior points of the main
\* curve: never at its first or last point and never at a point of the
\* overshoot tail.
C21_CorrectionOnlyInsideMainCurve ==
    HasCorrection => (mv_i - 1 > 0 /\ mv_i - 1 < mv_numPoints - 1)

\* C22: when a micro-correction occurs at a step, the jittered point, within
\* 2 units of the real point, is issued first and followed by half the
\* step's delay, then the real point is issued and followed by the full
\* delay.
C22_CorrectionBeforeRealPoint ==
    HasCorrection =>
        /\ Len(mv_last) = 4
        /\ mv_last[1].kind = "move" /\ mv_last[1].role = "correction"
        /\ mv_last[2].kind = "sleep"
        /\ mv_last[3].kind = "move" /\ mv_last[3].role # "correction"
        /\ mv_last[4].kind = "sleep"
        /\ mv_last[2].us = GoDiv(mv_last[4].us, 2)
        /\ Abs(mv_last[1].p.xn - mv_last[3].p.xn) <= 2 * mv_last[3].p.den
        /\ Abs(mv_last[1].p.yn - mv_last[3].p.yn) <= 2 * mv_last[3].p.den

\* C23: in every scroll the chunk count is between 5 and 14; every forward
\* chunk delta has the sign of the requested distance and a magnitude within
\* 25% of baseChunk = |distance| / chunkCount (compared after multiplying by
\* 4 * chunkCount); the delay after each chunk lies in [speedMin, speedMax] ms.
C23_ChunkBounds ==
    (sc_dir # "none" /\ sc_pc # "idle") =>
        /\ sc_chunks >= 5 /\ sc_chunks <= 14
        /\ sc_last # << >> =>
              /\ sc_last[1].kind = "scroll"
              /\ (sc_dir = "down") => sc_last[1].delta > 0
              /\ (sc_dir = "up") => sc_last[1].delta < 0
              /\ 4 * Abs(sc_chunks * Abs(sc_last[1].delta) - sc_distance)
                    <= sc_distance
              /\ sc_last[2].kind = "sleep"
              /\ sc_last[2].ms >= sc_prof.speedMin
              /\ sc_last[2].ms <= sc_prof.speedMax

\* the same bounds with the margin measured against the code's chunkSize,
\* the truncated quotient distance / chunkCount
ChunkBoundsAgainstChunkSize ==
    (sc_dir # "none" /\ sc_pc # "idle") =>
        /\ sc_chunks >= 5 /\ sc_chunks <= 14
        /\ sc_chunkSize = GoDiv(sc_distance, sc_chunks)
        /\ sc_last # << >> =>
              /\ sc_last[1].kind = "scroll"
              /\ (sc_dir = "down") => sc_last[1].delta > 0
              /\ (sc_dir = "up") => sc_last[1].delta < 0
              /\ 4 * Abs(Abs(sc_last[1].delta) - sc_chunkSize) <= sc_chunkSize
              /\ sc_last[2].kind = "sleep"
              /\ sc_last[2].ms >= sc_prof.speedMin
              /\ sc_last[2].ms <= sc_prof.speedMax

\* the positions of the latest iteration, after its forward chunk, at which
\* the page is scrolled
BackScrolls == { j \in DOMAIN sc_last : j > 1 /\ sc_last[j].kind = "scroll" }

\* the parts of C24 other than the sign of the back-scroll
BackScrollShape(j) ==
    /\ sc_dir = "down"
    /\ sc_last[1].kind = "scroll" /\ sc_last[1].delta > 0
    /\ 2 * Abs(sc_last[j].delta) <= sc_last[1].delta
    /\ j + 1 = Len(sc_last)
    /\ sc_last[j + 1].kind = "sleep"
    /\ sc_last[j + 1].ms >= 200 /\ sc_last[j + 1].ms <= 500

\* C24 as stated: a back-scroll is issued only during a downward scroll and
\* only after the forward chunk of the same iteration; its delta has the
\* opposite sign and is at most half that chunk's delta; a settle delay of
\* 200 to 500 ms follows it; an upward scroll issues none.
C24_BackScrollOppositeSign ==
    /\ Cardinality(BackScrolls) <= 1
    /\ sc_dir = "up" => BackScrolls = {}
    /\ \A j \in BackScrolls : sc_last[j].delta < 0 /\ BackScrollShape(j)

\* C24, amended: the same, except that the back-scroll's delta is zero or
\* has the opposite sign (its magnitude is rand.Intn(scrollAmount / 2)).
C24_BackScrollOnlyDownward ==
    /\ Cardinality(BackScrolls) <= 1
    /\ sc_dir = "up" => BackScrolls = {}
    /\ \A j \in BackScrolls : sc_last[j].delta <= 0 /\ BackScrollShape(j)

\* a downward scroll has scrolled back by two units or more and settled for
\* 499 ms
C24_Witness ==
    /\ sc_dir = "down"
    /\ \E j \in BackScrolls :
          /\ sc_last[j].delta <= -2
          /\ sc_last[j + 1].ms = 499

\* what the wait of Login keeps true at every moment
LoginWaitSafe ==
    /\ lg_checks <= MaxPolls
    /\ lg_sent <= 1
    /\ (lg_ppc = "exited") => lg_sent = 1
    /\ (lg_ppc # "none" /\ lg_pc # "wait") =>
          /\ lg_ppc = "exited"
          /\ (lg_err = "timeout waiting for login") <=> ~lg_seen
          /\ lg_pc \in {"verify", "save"} => lg_seen

\* C25: after the credentials are submitted the wait of Login always ends;
\* the poller makes at most 300 checks, delivers exactly one result and is
\* not left blocked on the channel, and Login returns the timeout error
\* exactly when no check saw a logged-in session.
C25_LoginWaitEnds ==
    /\ []LoginWaitSafe
    /\ (lg_pc = "wait") ~> (lg_pc # "wait" /\ lg_ppc = "exited")

\* Login has returned the timeout error after 300 checks
C25_Witness ==
    /\ lg_pc = "done"
    /\ lg_err = "timeout waiting for login"
    /\ lg_checks = MaxPolls
    /\ lg_ppc = "exited"
    /\ lg_sent = 1

\* C26: for a window with businessHoursStart < businessHoursEnd and a clock
\* that advances by each sleep, WaitForBusinessHours eventually returns from
\* every starting time and for every weekendActivity, and when it returns
\* IsBusinessHours is true.
C26_WaitForBusinessHoursReturns ==
    /\ [](w_pc = "returned" => IsBusinessHours(s_cfg, now))
    /\ (w_pc = "loop" /\ s_cfg.businessHoursStart < s_cfg.businessHoursEnd)
          ~> (w_pc = "returned")

\* a wait that began on a Friday after hours has returned on the Monday
C26_Witness ==
    /\ w_pc = "returned"
    /\ w_now >= 0
    /\ Weekday(w_now) = Saturday
    /\ Weekday(now) = Monday
    /\ DayOf(now) > DayOf(w_now)

RECURSIVE Applied(_, _)
\* the content of an input that held the text `content` after the first n
\* key events: a character is appended, a backspace removes the last one;
\* Ctrl+A selects the content and the Backspace after it removes it all
Applied(content, n) ==
    IF n = Len(ty_events) THEN content
    ELSE LET e == ty_events[n + 1] IN
         IF ~e.ok THEN Applied(content, n + 1)
         ELSE IF e.kind = "backspace"
         THEN Applied(IF content = << >> THEN << >>
                      ELSE SubSeq(content, 1, Len(content) - 1), n + 1)
         ELSE IF e.kind = "clear" THEN Applied(<< >>, n + 1)
         ELSE IF e.kind \in {"press", "select", "release"}
         THEN Applied(content, n + 1)
         ELSE Applied(Append(content, e.value), n + 1)

\* C27: if every key event is delivered, the keystrokes applied in order to
\* an empty input leave the characters typed so far, and after TypeText has
\* returned exactly the text.
C27_TypedTextIsTheText ==
    (\A j \in DOMAIN ty_events : ty_events[j].ok) =>
        /\ Applied(<< >>, 0) = SubSeq(ty_text, 1, ty_i)
        /\ (ty_pc = "done" /\ ty_err = "nil") => Applied(<< >>, 0) = ty_text

\* a text of three characters has been typed with a typo before the second
\* and the third, every key event delivered
C27_Witness ==
    /\ ty_pc = "done" /\ ty_err = "nil"
    /\ Len(ty_text) = 3
    /\ Len(ty_events) = 7
    /\ \A j \in DOMAIN ty_events : ty_events[j].ok
    /\ Applied(<< >>, 0) = ty_text

\* C28: once SendConnectionRequest has reported that the daily connection
\* limit is reached, whatever the recorded count, the main workflow makes no
\* further attempt: no step of the run after that report is another call.
C28_MainStopsAtDailyLimit ==
    [][c_ret.err = "limit" => c_ret'.n = c_ret.n]_vars

\* C29: Search never returns more than search.max_results profiles and never
\* stores more than that many search results in one run.
C29_SearchWithinMaxResults ==
    /\ sr_all <= sr_max
    /\ sr_stored <= sr_max

\* a note was cut to the limit and ends in "..."
CutToLimit ==
    /\ Len(nt_note) = nt_in.limit
    /\ SubSeq(nt_note, Len(nt_note) - 2, Len(nt_note)) = << ".", ".", "." >>

\* C30: for every template, profile and note_character_limit (0, 1 and 2
\* included) generateNote completes and returns a note of at most
\* note_character_limit characters; a note longer than the limit is cut to
\* exactly the limit and ends in "...".
C30_NoteWithinLimit ==
    /\ nt_pc # "panic"
    /\ nt_pc = "done" =>
          /\ Len(nt_note) <= nt_in.limit
          /\ Len(nt_full) > nt_in.limit => CutToLimit

\* the same for limits of 3 and more
NoteWithinLimitFrom3 ==
    nt_in.limit >= 3 =>
        /\ nt_pc # "panic"
        /\ nt_pc = "done" =>
              /\ Len(nt_note) <= nt_in.limit
              /\ Len(nt_full) > nt_in.limit => CutToLimit

====
